---- MODULE Spec2Model ----
(***************************************************************************)
(* A model of homogenize: the analytic expansion RegimeSwitchingModel      *)
(* (src/homogenize/model.py) and the Monte Carlo validator SlowSimulator   *)
(* (src/homogenize/slow.py).                                               *)
(*                                                                         *)
(* Numbers.  The program computes in IEEE double precision.  The model     *)
(* keeps the shape of that arithmetic and narrows its width: a finite      *)
(* value is a fixed-point number m / Scale with |m| <= MaxM, and beside    *)
(* the finite values there are +inf, -inf and NaN.  Operations follow      *)
(* Python: + - * overflow silently to an infinity, inf - inf and 0 * inf   *)
(* are NaN, x / 0 raises ZeroDivisionError, x ** n and math.exp raise      *)
(* OverflowError when the result is out of range, math.sqrt raises         *)
(* ValueError below zero, and a result too small for the format rounds to  *)
(* zero.  A raised exception is a value of its own kind that every         *)
(* operation passes on, the left operand's first, as evaluation order      *)
(* does in the program.                                                    *)
(***************************************************************************)
EXTENDS Integers, Sequences, FiniteSets, TLC

VARIABLES
    state,   \* "start" | "constructed" | "rejected": what the constructor call did
    self,    \* the object's attributes (a record), meaningful once constructed
    exc,     \* the exception the last call raised, "" when it returned
    call,    \* the last call: its name, arguments, return value, what it read
    calls,   \* the num of every simulate call made so far, in order
    twin,    \* a second validator built with the same arguments (batch splitting)
    seed     \* the random draws both validators consume, and the split (a, b)

vars == <<state, self, exc, call, calls, twin, seed>>

-----------------------------------------------------------------------------
(* The number format *)

\* fraction bits of the narrowed format
FracBits == 6

\* exponent range of the narrowed format: finite values lie within 2^ExpBits
ExpBits == 11

RECURSIVE Pow2(_)
Pow2(n) == IF n <= 0 THEN 1 ELSE 2 * Pow2(n - 1)

Scale == Pow2(FracBits)

MaxFloat == Pow2(ExpBits)

MaxM == MaxFloat * Scale

ErrKinds == {"OverflowError", "ZeroDivisionError", "ValueError", "AssertionError"}

Fin(m) == [k |-> "fin", m |-> m]

PInf == [k |-> "inf", m |-> 0]

NInf == [k |-> "ninf", m |-> 0]

NaN == [k |-> "nan", m |-> 0]

Err(e) == [k |-> e, m |-> 0]

IsErr(v) == v.k \in ErrKinds

IsFin(v) == v.k = "fin"

IsNaN(v) == v.k = "nan"

IsInf(v) == v.k \in {"inf", "ninf"}

Abs(i) == IF i < 0 THEN -i ELSE i

Sgn(i) == IF i < 0 THEN -1 ELSE IF i > 0 THEN 1 ELSE 0

\* the sign of a non-NaN, non-exception value
SignOf(v) == IF v.k = "inf" THEN 1 ELSE IF v.k = "ninf" THEN -1 ELSE Sgn(v.m)

InfOf(sign) == IF sign < 0 THEN NInf ELSE PInf

\* a magnitude with its sign, as a value: out of range is an infinity
Norm(sign, mag) == IF mag > MaxM THEN InfOf(sign) ELSE Fin(sign * mag)

\* num / den rounded to nearest, ties away from zero (num, den >= 0, den > 0)
Rnd(num, den) == (2 * num + den) \div (2 * den)

\* the integer literal n, and the literal n/d
F(n) == Norm(Sgn(n), Abs(n) * Scale)

Q(n, d) == Norm(Sgn(n), Rnd(Abs(n) * Scale, d))

Neg(a) ==
    IF IsErr(a) \/ IsNaN(a) THEN a
    ELSE IF a.k = "inf" THEN NInf
    ELSE IF a.k = "ninf" THEN PInf
    ELSE Fin(-a.m)

Add(a, b) ==
    IF IsErr(a) THEN a
    ELSE IF IsErr(b) THEN b
    ELSE IF IsNaN(a) \/ IsNaN(b) THEN NaN
    ELSE IF IsInf(a) /\ IsInf(b) THEN (IF a.k = b.k THEN a ELSE NaN)
    ELSE IF IsInf(a) THEN a
    ELSE IF IsInf(b) THEN b
    ELSE Norm(Sgn(a.m + b.m), Abs(a.m + b.m))

Sub(a, b) == Add(a, Neg(b))

\* |a.m * b.m| / Scale rounded, without forming the full product
MulMag(x, y) ==
    LET xh == x \div Scale
        xl == x % Scale
    IN  IF xh * (y \div Scale) > MaxFloat THEN MaxM + 1
        ELSE xh * y + (xl * y + Scale \div 2) \div Scale

Mul(a, b) ==
    IF IsErr(a) THEN a
    ELSE IF IsErr(b) THEN b
    ELSE IF IsNaN(a) \/ IsNaN(b) THEN NaN
    ELSE IF IsInf(a) \/ IsInf(b)
         THEN (IF SignOf(a) = 0 \/ SignOf(b) = 0 THEN NaN
               ELSE InfOf(SignOf(a) * SignOf(b)))
    ELSE Norm(Sgn(a.m) * Sgn(b.m), MulMag(Abs(a.m), Abs(b.m)))

Div(a, b) ==
    IF IsErr(a) THEN a
    ELSE IF IsErr(b) THEN b
    ELSE IF IsFin(b) /\ b.m = 0 THEN Err("ZeroDivisionError")
    ELSE IF IsNaN(a) \/ IsNaN(b) THEN NaN
    ELSE IF IsInf(a) THEN (IF IsInf(b) THEN NaN ELSE InfOf(SignOf(a) * SignOf(b)))
    ELSE IF IsInf(b) THEN Fin(0)
    ELSE Norm(Sgn(a.m) * Sgn(b.m), Rnd(Abs(a.m) * Scale, Abs(b.m)))

\* a ** n for an integer literal n >= 0: an overflow raises, an underflow is zero
RECURSIVE PowInt(_, _)
PowInt(a, n) ==
    IF IsErr(a) THEN a
    ELSE IF n = 0 THEN F(1)
    ELSE LET p == Mul(PowInt(a, n - 1), a)
         IN  IF IsErr(p) THEN p
             ELSE IF IsInf(p) /\ IsFin(a) THEN Err("OverflowError")
             ELSE p

\* a < b as Python compares floats: false when either is NaN
Lt(a, b) ==
    IF IsNaN(a) \/ IsNaN(b) THEN FALSE
    ELSE IF a.k = "ninf" THEN b.k # "ninf"
    ELSE IF a.k = "inf" THEN FALSE
    ELSE IF b.k = "inf" THEN TRUE
    ELSE IF b.k = "ninf" THEN FALSE
    ELSE a.m < b.m

\* the constant e in the format
EConst == Q(2718, 1000)

\* math.exp: OverflowError when the result is out of range; exp(0) = 1 exactly.
\* e^(n+f), n an integer and 0 <= f < 1, is e^n times the chord of e^f.
Exp(a) ==
    IF IsErr(a) \/ IsNaN(a) THEN a
    ELSE IF a.k = "inf" THEN PInf
    ELSE IF a.k = "ninf" THEN Fin(0)
    ELSE LET n == a.m \div Scale
             f == a.m % Scale
             chord == Fin(Scale + Rnd(f * (EConst.m - Scale), Scale))
         IN  IF n >= ExpBits THEN Err("OverflowError")
             ELSE IF n < -(FracBits + 2) THEN Fin(0)
             ELSE LET base == IF n >= 0 THEN PowInt(EConst, n)
                              ELSE PowInt(Div(F(1), EConst), -n)
                      r == Mul(base, chord)
                  IN  IF IsErr(r) THEN r
                      ELSE IF IsInf(r) THEN Err("OverflowError")
                      ELSE r

\* the integer square root of n by bisection: lo*lo <= n < hi*hi
RECURSIVE ISqrt(_, _, _)
ISqrt(n, lo, hi) ==
    IF hi - lo <= 1 THEN lo
    ELSE LET mid == (lo + hi) \div 2
         IN  IF mid * mid <= n THEN ISqrt(n, mid, hi) ELSE ISqrt(n, lo, mid)

\* math.sqrt: ValueError below zero
Sqrt(a) ==
    IF IsErr(a) \/ IsNaN(a) THEN a
    ELSE IF a.k = "inf" THEN PInf
    ELSE IF a.k = "ninf" \/ a.m < 0 THEN Err("ValueError")
    ELSE LET n == a.m * Scale
             r == ISqrt(n, 0, Scale * Pow2((ExpBits + 1) \div 2) + 1)
         IN  Fin(IF n - r * r > r THEN r + 1 ELSE r)

\* the kind of the first exception among vs[i..], "" if none
RECURSIVE FirstErrFrom(_, _)
FirstErrFrom(vs, i) ==
    IF i > Len(vs) THEN ""
    ELSE IF IsErr(vs[i]) THEN vs[i].k
    ELSE FirstErrFrom(vs, i + 1)

\* the kind of the first exception among the values of a sequence, "" if none
FirstErr(vs) == FirstErrFrom(vs, 1)

-----------------------------------------------------------------------------
(* RunningStats (homogenize/running.py): Welford's online mean and variance *)

RSNew == [n |-> 0, mean |-> F(0), M2 |-> F(0)]

RSPush(rs, v) ==
    LET n1 == rs.n + 1
        delta == Sub(v, rs.mean)
        mean1 == Add(rs.mean, Div(delta, F(n1)))
    IN  [n |-> n1, mean |-> mean1, M2 |-> Add(rs.M2, Mul(delta, Sub(v, mean1)))]

\* what mean() and variance() of an accumulator with no push may do:
\* give NaN, or raise on the division by a zero count
Undefined == {NaN, Err("ZeroDivisionError")}

RSMean(rs, undef) == IF rs.n = 0 THEN undef ELSE rs.mean

RSVariance(rs, undef) == IF rs.n = 0 THEN undef ELSE Div(rs.M2, F(rs.n))

-----------------------------------------------------------------------------
(* RegimeSwitchingModel (src/homogenize/model.py) *)

\* the state before any constructor has run
NoObject == [none |-> TRUE]

\* __init__: the attributes it sets, and the exception it raises ("" if none)
RegimeSwitchingModel_init(kappa, thetas, sigmas, lmbd) ==
    LET theta_bar == Mul(Q(1, 2), Add(thetas[1], thetas[2]))
        ss_bar == Mul(Q(1, 2), Add(PowInt(sigmas[1], 2), PowInt(sigmas[2], 2)))
        theta_under == Mul(Q(1, 2), Sub(thetas[1], thetas[2]))
        ss_under == Mul(Q(1, 2), Sub(PowInt(sigmas[1], 2), PowInt(sigmas[2], 2)))
        epsilon == Div(F(1), lmbd)
    IN  [exc |-> FirstErr(<<theta_bar, ss_bar, theta_under, ss_under, epsilon>>),
         obj |-> [kappa |-> kappa, thetas |-> thetas, sigmas |-> sigmas, lmbd |-> lmbd,
                  theta_bar |-> theta_bar, ss_bar |-> ss_bar,
                  theta_under |-> theta_under, ss_under |-> ss_under,
                  epsilon |-> epsilon]]

tau(obj, t) == Div(Sub(F(1), Exp(Mul(Neg(obj.kappa), t))), obj.kappa)

\* line 41 with tau_ computed
a0_return(obj, t, tau_) ==
    Sub(Mul(Sub(obj.theta_bar, Div(obj.ss_bar, Mul(F(2), PowInt(obj.kappa, 2)))),
            Sub(tau_, t)),
        Div(Mul(obj.ss_bar, PowInt(tau_, 2)), Mul(F(4), obj.kappa)))

a0(obj, t) == a0_return(obj, t, tau(obj, t))

u0(obj, t, x) == Exp(Sub(a0(obj, t), Mul(tau(obj, t), x)))

\* np.exp: an overflow is +inf and a warning, never an exception
np_exp(a) ==
    IF IsErr(a) THEN a
    ELSE IF IsFin(a) /\ Exp(a) = Err("OverflowError") THEN PInf
    ELSE Exp(a)

\* a / b where a is a numpy float: a division by zero is an infinity or NaN
\* and a warning, never an exception
np_div(a, b) ==
    IF IsErr(a) THEN a
    ELSE IF IsErr(b) THEN b
    ELSE IF IsFin(b) /\ b.m = 0
         THEN (IF IsNaN(a) \/ SignOf(a) = 0 THEN NaN ELSE InfOf(SignOf(a)))
    ELSE Div(a, b)

\* a ** 2 where a is a numpy float: an overflow is +inf, never an exception
np_square(a) == Mul(a, a)

\* lines 65-66 with tau_ computed
u0_check_return(obj, t, x, tau_) ==
    Mul(np_exp(Sub(Mul(Sub(obj.theta_bar,
                           Div(obj.ss_bar, Mul(F(2), PowInt(obj.kappa, 2)))),
                       Sub(tau_, t)),
                   Mul(Div(obj.ss_bar, Mul(F(4), obj.kappa)), np_square(tau_)))),
        np_exp(Mul(Neg(x), tau_)))

u0_check(obj, t, x) ==
    u0_check_return(obj, t, x,
                    np_div(Sub(F(1), np_exp(Mul(Neg(obj.kappa), t))), obj.kappa))

-----------------------------------------------------------------------------
(* The correction terms.  The program writes each as one long arithmetic   *)
(* expression in the attributes and t.  An expression is kept as a tree,   *)
(* node for node as the program's parser reads the source text, and Eval   *)
(* computes it in the program's order.                                     *)

\* the literal n/d
ELit(n) == <<"lit", n, 1>>

ELitQ(n, d) == <<"lit", n, d>>

\* self.<a>
EAttr(a) == <<"attr", a>>

\* the argument t
EArg == <<"t">>

ENeg(a) == <<"neg", a>>

EExp(a) == <<"exp", a>>

EAdd(a, b) == <<"add", a, b>>

ESub(a, b) == <<"sub", a, b>>

EMul(a, b) == <<"mul", a, b>>

EDiv(a, b) == <<"div", a, b>>

\* a ** n
EPow(a, n) == <<"pow", a, n>>

\* a quotient of two literals, such as 0.625e3 / 0.4608e4: the compiler folds
\* it into one constant before the program runs
IsLitQuotient(e) == e[1] = "div" /\ e[2][1] = "lit" /\ e[3][1] = "lit"

RECURSIVE Eval(_, _, _)
Eval(e, obj, t) ==
    CASE e[1] = "lit" -> Q(e[2], e[3])
      [] IsLitQuotient(e) -> Q(e[2][2] * e[3][3], e[2][3] * e[3][2])
      [] e[1] = "attr" -> obj[e[2]]
      [] e[1] = "t" -> t
      [] e[1] = "neg" -> Neg(Eval(e[2], obj, t))
      [] e[1] = "exp" -> Exp(Eval(e[2], obj, t))
      [] e[1] = "add" -> Add(Eval(e[2], obj, t), Eval(e[3], obj, t))
      [] e[1] = "sub" -> Sub(Eval(e[2], obj, t), Eval(e[3], obj, t))
      [] e[1] = "mul" -> Mul(Eval(e[2], obj, t), Eval(e[3], obj, t))
      [] e[1] = "div" /\ ~IsLitQuotient(e) -> Div(Eval(e[2], obj, t), Eval(e[3], obj, t))
      [] e[1] = "pow" -> PowInt(Eval(e[2], obj, t), e[3])

\* a list display: its entries computed in order
EvalAll(es, obj, t) == [i \in 1..Len(es) |-> Eval(es[i], obj, t)]

v1_antisymmetric_expr ==
    EPow(EAdd(EMul(EAttr("theta_under"), ESub(ELit(1), EExp(EMul(ENeg(EAttr("kappa")), EArg)))),
    EDiv(EDiv(EMul(EAttr("ss_under"), EPow(ESub(ELit(1), EExp(EMul(ENeg(EAttr("kappa")), EArg))),
    2)), EPow(EAttr("kappa"), 2)), ELit(2))), 2)

v1_antisymmetric(obj, t) == Eval(v1_antisymmetric_expr, obj, t)

v1_symmetric_expr ==
    EDiv(EDiv(ESub(ESub(EAdd(ESub(EAdd(ESub(EAdd(EAdd(EAdd(EMul(ESub(ESub(EMul(EMul(ELit(-24),
    EPow(EAttr("theta_under"), 2)), EPow(EAttr("kappa"), 4)), EMul(EMul(EMul(ELit(72),
    EAttr("theta_under")), EPow(EAttr("kappa"), 2)), EAttr("ss_under"))), EMul(ELit(36),
    EPow(EAttr("ss_under"), 2))), EExp(ENeg(EMul(EMul(ELit(2), EAttr("kappa")), EArg)))),
    EMul(EAdd(EAdd(EMul(EMul(ELit(96), EPow(EAttr("theta_under"), 2)), EPow(EAttr("kappa"), 4)),
    EMul(EMul(EMul(ELit(144), EAttr("theta_under")), EPow(EAttr("kappa"), 2)), EAttr("ss_under"))),
    EMul(ELit(48), EPow(EAttr("ss_under"), 2))), EExp(ENeg(EMul(EAttr("kappa"), EArg))))),
    EMul(EMul(EMul(ELit(16), EAttr("ss_under")), EAdd(EMul(EAttr("theta_under"), EPow(EAttr("kappa"),
    2)), EAttr("ss_under"))), EExp(ENeg(EMul(EMul(ELit(3), EAttr("kappa")), EArg))))),
    EMul(EMul(EMul(ELit(48), EPow(EAttr("theta_under"), 2)), EPow(EAttr("kappa"), 5)), EArg)),
    EMul(EMul(ELit(72), EPow(EAttr("theta_under"), 2)), EPow(EAttr("kappa"), 4))),
    EMul(EMul(EMul(EMul(ELit(48), EAttr("theta_under")), EPow(EAttr("kappa"), 3)),
    EAttr("ss_under")), EArg)), EMul(EMul(EMul(ELit(88), EAttr("theta_under")), EPow(EAttr("kappa"),
    2)), EAttr("ss_under"))), EMul(EMul(EMul(ELit(12), EAttr("kappa")), EPow(EAttr("ss_under"), 2)),
    EArg)), EMul(EMul(ELit(3), EPow(EAttr("ss_under"), 2)), EExp(ENeg(EMul(EMul(ELit(4),
    EAttr("kappa")), EArg))))), EMul(ELit(25), EPow(EAttr("ss_under"), 2))), EPow(EAttr("kappa"),
    5)), ELit(48))

v1_symmetric(obj, t) == Eval(v1_symmetric_expr, obj, t)

v2_antisymmetric_expr ==
    EAdd(EDiv(EDiv(ENeg(EAdd(EAdd(EAdd(EAdd(ESub(ESub(EMul(EMul(EMul(ELit(-2),
    ESub(ESub(EMul(EMul(ELit(-24), EPow(EAttr("theta_under"), 2)), EPow(EAttr("kappa"), 4)),
    EMul(EMul(EMul(ELit(72), EAttr("theta_under")), EPow(EAttr("kappa"), 2)), EAttr("ss_under"))),
    EMul(ELit(36), EPow(EAttr("ss_under"), 2)))), EAttr("kappa")), EExp(ENeg(EMul(EMul(ELit(2),
    EAttr("kappa")), EArg)))), EMul(EMul(EAdd(EAdd(EMul(EMul(ELit(96), EPow(EAttr("theta_under"),
    2)), EPow(EAttr("kappa"), 4)), EMul(EMul(EMul(ELit(144), EAttr("theta_under")),
    EPow(EAttr("kappa"), 2)), EAttr("ss_under"))), EMul(ELit(48), EPow(EAttr("ss_under"), 2))),
    EAttr("kappa")), EExp(ENeg(EMul(EAttr("kappa"), EArg))))), EMul(EMul(EMul(EMul(ELit(48),
    EAttr("ss_under")), EAdd(EMul(EAttr("theta_under"), EPow(EAttr("kappa"), 2)),
    EAttr("ss_under"))), EAttr("kappa")), EExp(ENeg(EMul(EMul(ELit(3), EAttr("kappa")), EArg))))),
    EMul(EMul(ELit(48), EPow(EAttr("theta_under"), 2)), EPow(EAttr("kappa"), 5))),
    EMul(EMul(EMul(ELit(48), EAttr("theta_under")), EPow(EAttr("kappa"), 3)), EAttr("ss_under"))),
    EMul(EMul(ELit(12), EAttr("kappa")), EPow(EAttr("ss_under"), 2))), EMul(EMul(EMul(ELit(12),
    EPow(EAttr("ss_under"), 2)), EAttr("kappa")), EExp(ENeg(EMul(EMul(ELit(4), EAttr("kappa")),
    EArg)))))), EPow(EAttr("kappa"), 5)), ELit(48)), EDiv(EDiv(EMul(EAdd(EMul(EAttr("theta_under"),
    ESub(ELit(1), EExp(ENeg(EMul(EAttr("kappa"), EArg))))), EDiv(EDiv(EMul(EAttr("ss_under"),
    EPow(ESub(ELit(1), EExp(ENeg(EMul(EAttr("kappa"), EArg)))), 2)), EPow(EAttr("kappa"), 2)),
    ELit(2))), ESub(ESub(EAdd(ESub(EAdd(ESub(EAdd(EAdd(EAdd(EMul(ESub(ESub(EMul(EMul(ELit(-24),
    EPow(EAttr("theta_under"), 2)), EPow(EAttr("kappa"), 4)), EMul(EMul(EMul(ELit(72),
    EAttr("theta_under")), EPow(EAttr("kappa"), 2)), EAttr("ss_under"))), EMul(ELit(36),
    EPow(EAttr("ss_under"), 2))), EExp(ENeg(EMul(EMul(ELit(2), EAttr("kappa")), EArg)))),
    EMul(EAdd(EAdd(EMul(EMul(ELit(96), EPow(EAttr("theta_under"), 2)), EPow(EAttr("kappa"), 4)),
    EMul(EMul(EMul(ELit(144), EAttr("theta_under")), EPow(EAttr("kappa"), 2)), EAttr("ss_under"))),
    EMul(ELit(48), EPow(EAttr("ss_under"), 2))), EExp(ENeg(EMul(EAttr("kappa"), EArg))))),
    EMul(EMul(EMul(ELit(16), EAttr("ss_under")), EAdd(EMul(EAttr("theta_under"), EPow(EAttr("kappa"),
    2)), EAttr("ss_under"))), EExp(ENeg(EMul(EMul(ELit(3), EAttr("kappa")), EArg))))),
    EMul(EMul(EMul(ELit(48), EPow(EAttr("theta_under"), 2)), EPow(EAttr("kappa"), 5)), EArg)),
    EMul(EMul(ELit(72), EPow(EAttr("theta_under"), 2)), EPow(EAttr("kappa"), 4))),
    EMul(EMul(EMul(EMul(ELit(48), EAttr("theta_under")), EPow(EAttr("kappa"), 3)),
    EAttr("ss_under")), EArg)), EMul(EMul(EMul(ELit(88), EAttr("theta_under")), EPow(EAttr("kappa"),
    2)), EAttr("ss_under"))), EMul(EMul(EMul(ELit(12), EAttr("kappa")), EPow(EAttr("ss_under"), 2)),
    EArg)), EMul(EMul(ELit(3), EPow(EAttr("ss_under"), 2)), EExp(ENeg(EMul(EMul(ELit(4),
    EAttr("kappa")), EArg))))), EMul(ELit(25), EPow(EAttr("ss_under"), 2)))), EPow(EAttr("kappa"),
    5)), ELit(48)))

v2_antisymmetric(obj, t) == Eval(v2_antisymmetric_expr, obj, t)

v2_symmetric_terms ==
    <<  EMul(EMul(EDiv(EDiv(ELit(25), ELit(8)), EPow(EAttr("kappa"), 3)), EPow(EAttr("theta_under"), 2)),
        EAttr("ss_under")),
        EMul(EMul(EDiv(EDiv(ELit(137), ELit(80)), EPow(EAttr("kappa"), 5)), EAttr("theta_under")),
        EPow(EAttr("ss_under"), 2)),
        ESub(ESub(ESub(ESub(EMul(EMul(EDiv(EDiv(EDiv(ELit(9), ELit(2)), EPow(EAttr("kappa"), 3)),
        EPow(EExp(EMul(EAttr("kappa"), EArg)), 2)), EPow(EAttr("theta_under"), 2)), EAttr("ss_under")),
        EMul(EMul(EDiv(EDiv(ELit(6), EPow(EAttr("kappa"), 3)), EExp(EMul(EAttr("kappa"), EArg))),
        EPow(EAttr("theta_under"), 2)), EAttr("ss_under"))), EMul(EDiv(EMul(EDiv(ELit(2),
        EPow(EAttr("kappa"), 3)), EAttr("ss_under")), EPow(EExp(EMul(EAttr("kappa"), EArg)), 3)),
        EPow(EAttr("theta_under"), 2))), EMul(EMul(EMul(EDiv(EDiv(ELit(3), ELit(2)), EPow(EAttr("kappa"),
        2)), EPow(EAttr("theta_under"), 2)), EAttr("ss_under")), EArg)),
        EMul(EMul(EMul(EDiv(EDiv(ELit(3), ELit(4)), EPow(EAttr("kappa"), 4)), EAttr("theta_under")),
        EPow(EAttr("ss_under"), 2)), EArg)),
        EMul(EDiv(EMul(EDiv(EDiv(ELit(3), ELit(8)), EPow(EAttr("kappa"), 3)), EPow(EAttr("theta_under"),
        2)), EPow(EExp(EMul(EAttr("kappa"), EArg)), 4)), EAttr("ss_under")),
        ESub(ESub(EMul(EDiv(EMul(EDiv(EDiv(ELit(15), ELit(4)), EPow(EAttr("kappa"), 5)),
        EAttr("theta_under")), EPow(EExp(EMul(EAttr("kappa"), EArg)), 2)), EPow(EAttr("ss_under"), 2)),
        EMul(EDiv(EMul(EDiv(EDiv(ELit(15), ELit(4)), EPow(EAttr("kappa"), 5)), EAttr("theta_under")),
        EExp(EMul(EAttr("kappa"), EArg))), EPow(EAttr("ss_under"), 2))),
        EDiv(EMul(EMul(EDiv(EDiv(ELit(5), ELit(2)), EPow(EAttr("kappa"), 5)), EAttr("theta_under")),
        EPow(EAttr("ss_under"), 2)), EPow(EExp(EMul(EAttr("kappa"), EArg)), 3))),
        ESub(ESub(ESub(ESub(EDiv(EMul(EMul(EDiv(EDiv(ELit(15), ELit(16)), EPow(EAttr("kappa"), 5)),
        EAttr("theta_under")), EPow(EAttr("ss_under"), 2)), EPow(EExp(EMul(EAttr("kappa"), EArg)), 4)),
        EMul(EDiv(EMul(EDiv(EDiv(ELit(3), ELit(20)), EPow(EAttr("kappa"), 5)), EAttr("theta_under")),
        EPow(EExp(EMul(EAttr("kappa"), EArg)), 5)), EPow(EAttr("ss_under"), 2))),
        EMul(EMul(EMul(EDiv(EDiv(ELit(47), ELit(48)), EPow(EAttr("kappa"), 7)), EAttr("theta_under")),
        EPow(EAttr("ss_under"), 3)), EArg)), EMul(EMul(EMul(EDiv(EDiv(ELit(131), ELit(48)),
        EPow(EAttr("kappa"), 5)), EPow(EAttr("theta_under"), 2)), EPow(EAttr("ss_under"), 2)), EArg)),
        EMul(EMul(EMul(EDiv(EDiv(ELit(10), ELit(3)), EPow(EAttr("kappa"), 3)), EPow(EAttr("theta_under"),
        3)), EAttr("ss_under")), EArg)),
        ESub(EDiv(EMul(EMul(EDiv(EDiv(ELit(59), ELit(288)), EPow(EAttr("kappa"), 8)),
        EAttr("theta_under")), EPow(EAttr("ss_under"), 3)), EPow(EExp(EMul(EAttr("kappa"), EArg)), 6)),
        EDiv(EMul(EMul(EDiv(EDiv(ELit(15), ELit(16)), EPow(EAttr("kappa"), 8)), EAttr("theta_under")),
        EPow(EAttr("ss_under"), 3)), EPow(EExp(EMul(EAttr("kappa"), EArg)), 5))),
        ESub(ESub(EDiv(EMul(EMul(EDiv(EDiv(ELit(165), ELit(32)), EPow(EAttr("kappa"), 8)),
        EAttr("theta_under")), EPow(EAttr("ss_under"), 3)), EPow(EExp(EMul(EAttr("kappa"), EArg)), 2)),
        EDiv(EMul(EMul(EDiv(EDiv(ELit(163), ELit(48)), EPow(EAttr("kappa"), 8)), EAttr("theta_under")),
        EPow(EAttr("ss_under"), 3)), EExp(EMul(EAttr("kappa"), EArg)))),
        EDiv(EDiv(EMul(EMul(EDiv(ELit(1), EPow(EAttr("kappa"), 8)), EAttr("theta_under")),
        EPow(EAttr("ss_under"), 3)), EPow(EExp(EMul(EAttr("kappa"), EArg)), 7)), ELit(48))),
        ESub(EDiv(EMul(EMul(EDiv(EDiv(ELit(247), ELit(96)), EPow(EAttr("kappa"), 8)),
        EAttr("theta_under")), EPow(EAttr("ss_under"), 3)), EPow(EExp(EMul(EAttr("kappa"), EArg)), 4)),
        EDiv(EMul(EMul(EDiv(EDiv(ELit(653), ELit(144)), EPow(EAttr("kappa"), 8)), EAttr("theta_under")),
        EPow(EAttr("ss_under"), 3)), EPow(EExp(EMul(EAttr("kappa"), EArg)), 3))),
        EDiv(EMul(EMul(EMul(EDiv(ELit(1), EPow(EAttr("kappa"), 6)), EAttr("theta_under")),
        EPow(EAttr("ss_under"), 3)), EPow(EArg, 2)), ELit(4)),
        ESub(EDiv(EMul(EMul(EDiv(EDiv(ELit(1021), ELit(96)), EPow(EAttr("kappa"), 6)),
        EPow(EAttr("theta_under"), 2)), EPow(EAttr("ss_under"), 2)), EPow(EExp(EMul(EAttr("kappa"),
        EArg)), 2)), EDiv(EMul(EMul(EDiv(EDiv(ELit(193), ELit(24)), EPow(EAttr("kappa"), 6)),
        EPow(EAttr("theta_under"), 2)), EPow(EAttr("ss_under"), 2)), EExp(EMul(EAttr("kappa"), EArg)))),
        ESub(EDiv(EMul(EMul(EDiv(EDiv(ELit(25), ELit(288)), EPow(EAttr("kappa"), 6)),
        EPow(EAttr("theta_under"), 2)), EPow(EAttr("ss_under"), 2)), EPow(EExp(EMul(EAttr("kappa"),
        EArg)), 6)), EDiv(EMul(EMul(EDiv(EDiv(ELit(19), ELit(24)), EPow(EAttr("kappa"), 6)),
        EPow(EAttr("theta_under"), 2)), EPow(EAttr("ss_under"), 2)), EPow(EExp(EMul(EAttr("kappa"),
        EArg)), 5))),
        ESub(EDiv(EMul(EMul(EDiv(EDiv(ELit(313), ELit(96)), EPow(EAttr("kappa"), 6)),
        EPow(EAttr("theta_under"), 2)), EPow(EAttr("ss_under"), 2)), EPow(EExp(EMul(EAttr("kappa"),
        EArg)), 4)), EDiv(EMul(EMul(EDiv(EDiv(ELit(137), ELit(18)), EPow(EAttr("kappa"), 6)),
        EPow(EAttr("theta_under"), 2)), EPow(EAttr("ss_under"), 2)), EPow(EExp(EMul(EAttr("kappa"),
        EArg)), 3))),
        ESub(ESub(EMul(EMul(EMul(EDiv(EDiv(ELit(3), ELit(4)), EPow(EAttr("kappa"), 4)),
        EPow(EAttr("theta_under"), 2)), EPow(EAttr("ss_under"), 2)), EPow(EArg, 2)),
        EDiv(EMul(EMul(EDiv(EDiv(ELit(49), ELit(6)), EPow(EAttr("kappa"), 4)), EPow(EAttr("theta_under"),
        3)), EAttr("ss_under")), EExp(EMul(EAttr("kappa"), EArg)))), EDiv(EDiv(EMul(EMul(EDiv(ELit(1),
        EPow(EAttr("kappa"), 4)), EPow(EAttr("theta_under"), 3)), EAttr("ss_under")),
        EPow(EExp(EMul(EAttr("kappa"), EArg)), 5)), ELit(6))),
        ESub(EDiv(EMul(EMul(EDiv(EDiv(ELit(17), ELit(12)), EPow(EAttr("kappa"), 4)),
        EPow(EAttr("theta_under"), 3)), EAttr("ss_under")), EPow(EExp(EMul(EAttr("kappa"), EArg)), 4)),
        EDiv(EMul(EMul(EDiv(ELit(5), EPow(EAttr("kappa"), 4)), EPow(EAttr("theta_under"), 3)),
        EAttr("ss_under")), EPow(EExp(EMul(EAttr("kappa"), EArg)), 3))),
        EDiv(EMul(EMul(EDiv(EDiv(ELit(55), ELit(6)), EPow(EAttr("kappa"), 4)), EPow(EAttr("theta_under"),
        3)), EAttr("ss_under")), EPow(EExp(EMul(EAttr("kappa"), EArg)), 2)),
        ESub(EMul(EMul(EMul(EDiv(ELit(1), EPow(EAttr("kappa"), 2)), EPow(EAttr("theta_under"), 3)),
        EAttr("ss_under")), EPow(EArg, 2)), EMul(EMul(EMul(EDiv(EDiv(EDiv(ELit(19), ELit(8)),
        EPow(EExp(EMul(EAttr("kappa"), EArg)), 2)), EPow(EAttr("kappa"), 5)), EPow(EAttr("theta_under"),
        2)), EPow(EAttr("ss_under"), 2)), EArg)),
        EMul(EMul(EMul(EDiv(EDiv(EDiv(ELit(7), ELit(4)), EExp(EMul(EAttr("kappa"), EArg))),
        EPow(EAttr("kappa"), 7)), EAttr("theta_under")), EPow(EAttr("ss_under"), 3)), EArg),
        EMul(EMul(EMul(EDiv(EDiv(EDiv(ELit(2), ELit(3)), EPow(EExp(EMul(EAttr("kappa"), EArg)), 3)),
        EPow(EAttr("kappa"), 5)), EPow(EAttr("theta_under"), 2)), EPow(EAttr("ss_under"), 2)), EArg),
        EDiv(EMul(EMul(EMul(EDiv(EDiv(ELit(1), EPow(EExp(EMul(EAttr("kappa"), EArg)), 3)),
        EPow(EAttr("kappa"), 3)), EPow(EAttr("theta_under"), 3)), EAttr("ss_under")), EArg), ELit(3)),
        ESub(EMul(EMul(EMul(EDiv(EDiv(EDiv(ELit(9), ELit(2)), EExp(EMul(EAttr("kappa"), EArg))),
        EPow(EAttr("kappa"), 5)), EPow(EAttr("theta_under"), 2)), EPow(EAttr("ss_under"), 2)), EArg),
        EMul(EMul(EMul(EDiv(EDiv(ELit(2), EPow(EExp(EMul(EAttr("kappa"), EArg)), 2)),
        EPow(EAttr("kappa"), 3)), EPow(EAttr("theta_under"), 3)), EAttr("ss_under")), EArg)),
        ESub(EDiv(EMul(EPow(EAttr("theta_under"), 4), EPow(EArg, 2)), ELit(2)),
        EMul(EPow(EAttr("theta_under"), 3), EArg)),
        ESub(ESub(EMul(EDiv(EDiv(EDiv(ELit(3), ELit(2)), EAttr("kappa")), EPow(EExp(EMul(EAttr("kappa"),
        EArg)), 2)), EPow(EAttr("theta_under"), 3)), EMul(EDiv(EDiv(ELit(3), EAttr("kappa")),
        EExp(EMul(EAttr("kappa"), EArg))), EPow(EAttr("theta_under"), 3))), EDiv(EDiv(EMul(EDiv(ELit(1),
        EAttr("kappa")), EPow(EAttr("theta_under"), 3)), EPow(EExp(EMul(EAttr("kappa"), EArg)), 3)),
        ELit(3))),
        ESub(ESub(ESub(EDiv(EMul(EDiv(EDiv(ELit(15), ELit(16)), EPow(EAttr("kappa"), 7)),
        EPow(EAttr("ss_under"), 3)), EPow(EExp(EMul(EAttr("kappa"), EArg)), 2)),
        EDiv(EMul(EDiv(EDiv(ELit(3), ELit(4)), EPow(EAttr("kappa"), 7)), EPow(EAttr("ss_under"), 3)),
        EExp(EMul(EAttr("kappa"), EArg)))), EDiv(EMul(EDiv(EDiv(ELit(5), ELit(6)), EPow(EAttr("kappa"),
        7)), EPow(EAttr("ss_under"), 3)), EPow(EExp(EMul(EAttr("kappa"), EArg)), 3))),
        EDiv(EMul(EMul(EDiv(ELit(1), EPow(EAttr("kappa"), 6)), EPow(EAttr("ss_under"), 3)), EArg),
        ELit(8))),
        ESub(EDiv(EMul(EDiv(EDiv(ELit(15), ELit(32)), EPow(EAttr("kappa"), 7)), EPow(EAttr("ss_under"),
        3)), EPow(EExp(EMul(EAttr("kappa"), EArg)), 4)), EDiv(EMul(EDiv(EDiv(ELit(3), ELit(20)),
        EPow(EAttr("kappa"), 7)), EPow(EAttr("ss_under"), 3)), EPow(EExp(EMul(EAttr("kappa"), EArg)),
        5))),
        ESub(ESub(EDiv(EDiv(EMul(EDiv(ELit(1), EPow(EAttr("kappa"), 7)), EPow(EAttr("ss_under"), 3)),
        EPow(EExp(EMul(EAttr("kappa"), EArg)), 6)), ELit(48)), EMul(EMul(EDiv(EDiv(ELit(25), ELit(192)),
        EPow(EAttr("kappa"), 9)), EPow(EAttr("ss_under"), 4)), EArg)), EMul(EMul(EDiv(EDiv(ELit(3),
        ELit(2)), EAttr("kappa")), EPow(EAttr("theta_under"), 4)), EArg)) >>

v2_symmetric_difficult_terms ==
    <<  ESub(EDiv(EDiv(EMul(EDiv(ELit(1), EPow(EAttr("kappa"), 10)), EPow(EAttr("ss_under"), 4)),
        EPow(EExp(EMul(EAttr("kappa"), EArg)), 8)), ELit(512)), EDiv(EDiv(EMul(EDiv(ELit(1),
        EPow(EAttr("kappa"), 10)), EPow(EAttr("ss_under"), 4)), EPow(EExp(EMul(EAttr("kappa"), EArg)),
        7)), ELit(48))),
        ESub(EDiv(EMul(EDiv(EDiv(ELit(59), ELit(576)), EPow(EAttr("kappa"), 10)), EPow(EAttr("ss_under"),
        4)), EPow(EExp(EMul(EAttr("kappa"), EArg)), 6)), EDiv(EMul(EDiv(EDiv(ELit(5), ELit(16)),
        EPow(EAttr("kappa"), 10)), EPow(EAttr("ss_under"), 4)), EPow(EExp(EMul(EAttr("kappa"), EArg)),
        5))),
        ESub(EDiv(EMul(EDiv(EDiv(ELit(497), ELit(768)), EPow(EAttr("kappa"), 10)),
        EPow(EAttr("ss_under"), 4)), EPow(EExp(EMul(EAttr("kappa"), EArg)), 4)),
        EDiv(EMul(EDiv(EDiv(ELit(133), ELit(144)), EPow(EAttr("kappa"), 10)), EPow(EAttr("ss_under"),
        4)), EPow(EExp(EMul(EAttr("kappa"), EArg)), 3))),
        ESub(EDiv(EMul(EDiv(EDiv(ELit(57), ELit(64)), EPow(EAttr("kappa"), 10)), EPow(EAttr("ss_under"),
        4)), EPow(EExp(EMul(EAttr("kappa"), EArg)), 2)), EDiv(EMul(EDiv(EDiv(ELit(25), ELit(48)),
        EPow(EAttr("kappa"), 10)), EPow(EAttr("ss_under"), 4)), EExp(EMul(EAttr("kappa"), EArg)))),
        EDiv(EMul(EMul(EDiv(ELit(1), EPow(EAttr("kappa"), 8)), EPow(EAttr("ss_under"), 4)), EPow(EArg,
        2)), ELit(32)),
        ESub(EDiv(EDiv(EMul(EDiv(ELit(1), EPow(EAttr("kappa"), 2)), EPow(EAttr("theta_under"), 4)),
        EPow(EExp(EMul(EAttr("kappa"), EArg)), 4)), ELit(8)), EDiv(EMul(EDiv(ELit(1),
        EPow(EAttr("kappa"), 2)), EPow(EAttr("theta_under"), 4)), EPow(EExp(EMul(EAttr("kappa"), EArg)),
        3))),
        ESub(EDiv(EMul(EDiv(EDiv(ELit(11), ELit(4)), EPow(EAttr("kappa"), 2)), EPow(EAttr("theta_under"),
        4)), EPow(EExp(EMul(EAttr("kappa"), EArg)), 2)), EDiv(EMul(EDiv(ELit(3), EPow(EAttr("kappa"),
        2)), EPow(EAttr("theta_under"), 4)), EExp(EMul(EAttr("kappa"), EArg)))),
        EDiv(EMul(EMul(EDiv(EDiv(ELit(1), EExp(EMul(EAttr("kappa"), EArg))), EPow(EAttr("kappa"), 9)),
        EPow(EAttr("ss_under"), 4)), EArg), ELit(4)),
        EMul(EMul(EDiv(EDiv(ELit(275), ELit(288)), EPow(EAttr("kappa"), 8)), EAttr("theta_under")),
        EPow(EAttr("ss_under"), 3)),
        EMul(EMul(EDiv(EDiv(ELit(709), ELit(288)), EPow(EAttr("kappa"), 6)), EPow(EAttr("theta_under"),
        2)), EPow(EAttr("ss_under"), 2)),
        ESub(EMul(EMul(EDiv(EDiv(ELit(2), EExp(EMul(EAttr("kappa"), EArg))), EAttr("kappa")),
        EPow(EAttr("theta_under"), 4)), EArg), EDiv(EMul(EMul(EDiv(EDiv(ELit(1),
        EPow(EExp(EMul(EAttr("kappa"), EArg)), 2)), EAttr("kappa")), EPow(EAttr("theta_under"), 4)),
        EArg), ELit(2))),
        ESub(EMul(EMul(EDiv(EDiv(ELit(11), ELit(4)), EPow(EAttr("kappa"), 4)), EPow(EAttr("theta_under"),
        3)), EAttr("ss_under")), EDiv(EMul(EMul(EDiv(EDiv(ELit(1), EPow(EExp(EMul(EAttr("kappa"), EArg)),
        4)), EPow(EAttr("kappa"), 9)), EPow(EAttr("ss_under"), 4)), EArg), ELit(64))),
        ESub(EDiv(EMul(EMul(EDiv(EDiv(ELit(1), EPow(EExp(EMul(EAttr("kappa"), EArg)), 3)),
        EPow(EAttr("kappa"), 9)), EPow(EAttr("ss_under"), 4)), EArg), ELit(12)),
        EMul(EMul(EDiv(EDiv(EDiv(ELit(3), ELit(16)), EPow(EExp(EMul(EAttr("kappa"), EArg)), 2)),
        EPow(EAttr("kappa"), 9)), EPow(EAttr("ss_under"), 4)), EArg)),
        EMul(EDiv(EDiv(ELit(11), ELit(6)), EAttr("kappa")), EPow(EAttr("theta_under"), 3)),
        EMul(EDiv(EDiv(ELit(49), ELit(160)), EPow(EAttr("kappa"), 7)), EPow(EAttr("ss_under"), 3)),
        ESub(EMul(EMul(EMul(EDiv(EDiv(ELit(5), EExp(EMul(EAttr("kappa"), EArg))), EPow(EAttr("kappa"),
        3)), EPow(EAttr("theta_under"), 3)), EAttr("ss_under")), EArg),
        EDiv(EMul(EMul(EMul(EDiv(EDiv(ELit(1), EPow(EExp(EMul(EAttr("kappa"), EArg)), 4)),
        EPow(EAttr("kappa"), 7)), EAttr("theta_under")), EPow(EAttr("ss_under"), 3)), EArg), ELit(16))),
        EMul(EMul(EMul(EDiv(EDiv(EDiv(ELit(5), ELit(12)), EPow(EExp(EMul(EAttr("kappa"), EArg)), 3)),
        EPow(EAttr("kappa"), 7)), EAttr("theta_under")), EPow(EAttr("ss_under"), 3)), EArg),
        ESub(EDiv(EMul(EMul(EMul(EDiv(EDiv(ELit(-1), EPow(EExp(EMul(EAttr("kappa"), EArg)), 4)),
        EPow(EAttr("kappa"), 5)), EPow(EAttr("theta_under"), 2)), EPow(EAttr("ss_under"), 2)), EArg),
        ELit(16)), EMul(EMul(EMul(EDiv(EDiv(EDiv(ELit(9), ELit(8)), EPow(EExp(EMul(EAttr("kappa"),
        EArg)), 2)), EPow(EAttr("kappa"), 7)), EAttr("theta_under")), EPow(EAttr("ss_under"), 3)),
        EArg)),
        EMul(EDiv(EDiv(ELit(9), ELit(8)), EPow(EAttr("kappa"), 2)), EPow(EAttr("theta_under"), 4)) >>

\* line 142: the term list the function records beside the one it sums
v2_symmetric_reference_terms ==
    <<  EMul(EMul(EDiv(EDiv(ELit(25), ELit(8)), EPow(EAttr("kappa"), 3)), EPow(EAttr("theta_under"), 2)),
        EAttr("ss_under")),
        EMul(EMul(EDiv(EDiv(ELit(137), ELit(80)), EPow(EAttr("kappa"), 5)), EAttr("theta_under")),
        EPow(EAttr("ss_under"), 2)),
        ESub(ESub(ESub(ESub(EMul(EMul(EDiv(EDiv(EDiv(ELit(9), ELit(2)), EPow(EAttr("kappa"), 3)),
        EPow(EExp(EMul(EAttr("kappa"), EArg)), 2)), EPow(EAttr("theta_under"), 2)), EAttr("ss_under")),
        EMul(EMul(EDiv(EDiv(ELit(6), EPow(EAttr("kappa"), 3)), EExp(EMul(EAttr("kappa"), EArg))),
        EPow(EAttr("theta_under"), 2)), EAttr("ss_under"))), EMul(EDiv(EMul(EDiv(ELit(2),
        EPow(EAttr("kappa"), 3)), EAttr("ss_under")), EPow(EExp(EMul(EAttr("kappa"), EArg)), 3)),
        EPow(EAttr("theta_under"), 2))), EMul(EMul(EMul(EDiv(EDiv(ELit(3), ELit(2)), EPow(EAttr("kappa"),
        2)), EPow(EAttr("theta_under"), 2)), EAttr("ss_under")), EArg)),
        EMul(EMul(EMul(EDiv(EDiv(ELit(3), ELit(4)), EPow(EAttr("kappa"), 4)), EAttr("theta_under")),
        EPow(EAttr("ss_under"), 2)), EArg)),
        EMul(EDiv(EMul(EDiv(EDiv(ELit(3), ELit(8)), EPow(EAttr("kappa"), 3)), EPow(EAttr("theta_under"),
        2)), EPow(EExp(EMul(EAttr("kappa"), EArg)), 4)), EAttr("ss_under")),
        ESub(ESub(EMul(EDiv(EMul(EDiv(EDiv(ELit(15), ELit(4)), EPow(EAttr("kappa"), 5)),
        EAttr("theta_under")), EPow(EExp(EMul(EAttr("kappa"), EArg)), 2)), EPow(EAttr("ss_under"), 2)),
        EMul(EDiv(EMul(EDiv(EDiv(ELit(15), ELit(4)), EPow(EAttr("kappa"), 5)), EAttr("theta_under")),
        EExp(EMul(EAttr("kappa"), EArg))), EPow(EAttr("ss_under"), 2))),
        EDiv(EMul(EMul(EDiv(EDiv(ELit(5), ELit(2)), EPow(EAttr("kappa"), 5)), EAttr("theta_under")),
        EPow(EAttr("ss_under"), 2)), EPow(EExp(EMul(EAttr("kappa"), EArg)), 3))),
        ESub(ESub(ESub(ESub(EDiv(EMul(EMul(EDiv(EDiv(ELit(15), ELit(16)), EPow(EAttr("kappa"), 5)),
        EAttr("theta_under")), EPow(EAttr("ss_under"), 2)), EPow(EExp(EMul(EAttr("kappa"), EArg)), 4)),
        EMul(EDiv(EMul(EDiv(EDiv(ELit(3), ELit(20)), EPow(EAttr("kappa"), 5)), EAttr("theta_under")),
        EPow(EExp(EMul(EAttr("kappa"), EArg)), 5)), EPow(EAttr("ss_under"), 2))),
        EMul(EMul(EMul(EDiv(EDiv(ELit(47), ELit(48)), EPow(EAttr("kappa"), 7)), EAttr("theta_under")),
        EPow(EAttr("ss_under"), 3)), EArg)), EMul(EMul(EMul(EDiv(EDiv(ELit(131), ELit(48)),
        EPow(EAttr("kappa"), 5)), EPow(EAttr("theta_under"), 2)), EPow(EAttr("ss_under"), 2)), EArg)),
        EMul(EMul(EMul(EDiv(EDiv(ELit(10), ELit(3)), EPow(EAttr("kappa"), 3)), EPow(EAttr("theta_under"),
        3)), EAttr("ss_under")), EArg)),
        ESub(EDiv(EMul(EMul(EDiv(EDiv(ELit(59), ELit(288)), EPow(EAttr("kappa"), 8)),
        EAttr("theta_under")), EPow(EAttr("ss_under"), 3)), EPow(EExp(EMul(EAttr("kappa"), EArg)), 6)),
        EDiv(EMul(EMul(EDiv(EDiv(ELit(15), ELit(16)), EPow(EAttr("kappa"), 8)), EAttr("theta_under")),
        EPow(EAttr("ss_under"), 3)), EPow(EExp(EMul(EAttr("kappa"), EArg)), 5))),
        ESub(ESub(EDiv(EMul(EMul(EDiv(EDiv(ELit(165), ELit(32)), EPow(EAttr("kappa"), 8)),
        EAttr("theta_under")), EPow(EAttr("ss_under"), 3)), EPow(EExp(EMul(EAttr("kappa"), EArg)), 2)),
        EDiv(EMul(EMul(EDiv(EDiv(ELit(163), ELit(48)), EPow(EAttr("kappa"), 8)), EAttr("theta_under")),
        EPow(EAttr("ss_under"), 3)), EExp(EMul(EAttr("kappa"), EArg)))),
        EDiv(EDiv(EMul(EMul(EDiv(ELit(1), EPow(EAttr("kappa"), 8)), EAttr("theta_under")),
        EPow(EAttr("ss_under"), 3)), EPow(EExp(EMul(EAttr("kappa"), EArg)), 7)), ELit(48))),
        ESub(EDiv(EMul(EMul(EDiv(EDiv(ELit(247), ELit(96)), EPow(EAttr("kappa"), 8)),
        EAttr("theta_under")), EPow(EAttr("ss_under"), 3)), EPow(EExp(EMul(EAttr("kappa"), EArg)), 4)),
        EDiv(EMul(EMul(EDiv(EDiv(ELit(653), ELit(144)), EPow(EAttr("kappa"), 8)), EAttr("theta_under")),
        EPow(EAttr("ss_under"), 3)), EPow(EExp(EMul(EAttr("kappa"), EArg)), 3))),
        EDiv(EMul(EMul(EMul(EDiv(ELit(1), EPow(EAttr("kappa"), 6)), EAttr("theta_under")),
        EPow(EAttr("ss_under"), 3)), EPow(EArg, 2)), ELit(4)),
        ESub(EDiv(EMul(EMul(EDiv(EDiv(ELit(1021), ELit(96)), EPow(EAttr("kappa"), 6)),
        EPow(EAttr("theta_under"), 2)), EPow(EAttr("ss_under"), 2)), EPow(EExp(EMul(EAttr("kappa"),
        EArg)), 2)), EDiv(EMul(EMul(EDiv(EDiv(ELit(193), ELit(24)), EPow(EAttr("kappa"), 6)),
        EPow(EAttr("theta_under"), 2)), EPow(EAttr("ss_under"), 2)), EExp(EMul(EAttr("kappa"), EArg)))),
        ESub(EDiv(EMul(EMul(EDiv(EDiv(ELit(25), ELit(288)), EPow(EAttr("kappa"), 6)),
        EPow(EAttr("theta_under"), 2)), EPow(EAttr("ss_under"), 2)), EPow(EExp(EMul(EAttr("kappa"),
        EArg)), 6)), EDiv(EMul(EMul(EDiv(EDiv(ELit(19), ELit(24)), EPow(EAttr("kappa"), 6)),
        EPow(EAttr("theta_under"), 2)), EPow(EAttr("ss_under"), 2)), EPow(EExp(EMul(EAttr("kappa"),
        EArg)), 5))),
        ESub(EDiv(EMul(EMul(EDiv(EDiv(ELit(313), ELit(96)), EPow(EAttr("kappa"), 6)),
        EPow(EAttr("theta_under"), 2)), EPow(EAttr("ss_under"), 2)), EPow(EExp(EMul(EAttr("kappa"),
        EArg)), 4)), EDiv(EMul(EMul(EDiv(EDiv(ELit(137), ELit(18)), EPow(EAttr("kappa"), 6)),
        EPow(EAttr("theta_under"), 2)), EPow(EAttr("ss_under"), 2)), EPow(EExp(EMul(EAttr("kappa"),
        EArg)), 3))),
        ESub(ESub(EMul(EMul(EMul(EDiv(EDiv(ELit(3), ELit(4)), EPow(EAttr("kappa"), 4)),
        EPow(EAttr("theta_under"), 2)), EPow(EAttr("ss_under"), 2)), EPow(EArg, 2)),
        EDiv(EMul(EMul(EDiv(EDiv(ELit(49), ELit(6)), EPow(EAttr("kappa"), 4)), EPow(EAttr("theta_under"),
        3)), EAttr("ss_under")), EExp(EMul(EAttr("kappa"), EArg)))), EDiv(EDiv(EMul(EMul(EDiv(ELit(1),
        EPow(EAttr("kappa"), 4)), EPow(EAttr("theta_under"), 3)), EAttr("ss_under")),
        EPow(EExp(EMul(EAttr("kappa"), EArg)), 5)), ELit(6))),
        ESub(EDiv(EMul(EMul(EDiv(EDiv(ELit(17), ELit(12)), EPow(EAttr("kappa"), 4)),
        EPow(EAttr("theta_under"), 3)), EAttr("ss_under")), EPow(EExp(EMul(EAttr("kappa"), EArg)), 4)),
        EDiv(EMul(EMul(EDiv(ELit(5), EPow(EAttr("kappa"), 4)), EPow(EAttr("theta_under"), 3)),
        EAttr("ss_under")), EPow(EExp(EMul(EAttr("kappa"), EArg)), 3))),
        EDiv(EMul(EMul(EDiv(EDiv(ELit(55), ELit(6)), EPow(EAttr("kappa"), 4)), EPow(EAttr("theta_under"),
        3)), EAttr("ss_under")), EPow(EExp(EMul(EAttr("kappa"), EArg)), 2)),
        ESub(EMul(EMul(EMul(EDiv(ELit(1), EPow(EAttr("kappa"), 2)), EPow(EAttr("theta_under"), 3)),
        EAttr("ss_under")), EPow(EArg, 2)), EMul(EMul(EMul(EDiv(EDiv(EDiv(ELit(19), ELit(8)),
        EPow(EExp(EMul(EAttr("kappa"), EArg)), 2)), EPow(EAttr("kappa"), 5)), EPow(EAttr("theta_under"),
        2)), EPow(EAttr("ss_under"), 2)), EArg)),
        EMul(EMul(EMul(EDiv(EDiv(EDiv(ELit(7), ELit(4)), EExp(EMul(EAttr("kappa"), EArg))),
        EPow(EAttr("kappa"), 7)), EAttr("theta_under")), EPow(EAttr("ss_under"), 3)), EArg),
        EMul(EMul(EMul(EDiv(EDiv(EDiv(ELit(2), ELit(3)), EPow(EExp(EMul(EAttr("kappa"), EArg)), 3)),
        EPow(EAttr("kappa"), 5)), EPow(EAttr("theta_under"), 2)), EPow(EAttr("ss_under"), 2)), EArg),
        EDiv(EMul(EMul(EMul(EDiv(EDiv(ELit(1), EPow(EExp(EMul(EAttr("kappa"), EArg)), 3)),
        EPow(EAttr("kappa"), 3)), EPow(EAttr("theta_under"), 3)), EAttr("ss_under")), EArg), ELit(3)),
        ESub(EMul(EMul(EMul(EDiv(EDiv(EDiv(ELit(9), ELit(2)), EExp(EMul(EAttr("kappa"), EArg))),
        EPow(EAttr("kappa"), 5)), EPow(EAttr("theta_under"), 2)), EPow(EAttr("ss_under"), 2)), EArg),
        EMul(EMul(EMul(EDiv(EDiv(ELit(2), EPow(EExp(EMul(EAttr("kappa"), EArg)), 2)),
        EPow(EAttr("kappa"), 3)), EPow(EAttr("theta_under"), 3)), EAttr("ss_under")), EArg)),
        ESub(EDiv(EMul(EPow(EAttr("theta_under"), 4), EPow(EArg, 2)), ELit(2)),
        EMul(EPow(EAttr("theta_under"), 3), EArg)),
        ESub(ESub(EMul(EDiv(EDiv(EDiv(ELit(3), ELit(2)), EAttr("kappa")), EPow(EExp(EMul(EAttr("kappa"),
        EArg)), 2)), EPow(EAttr("theta_under"), 3)), EMul(EDiv(EDiv(ELit(3), EAttr("kappa")),
        EExp(EMul(EAttr("kappa"), EArg))), EPow(EAttr("theta_under"), 3))), EDiv(EDiv(EMul(EDiv(ELit(1),
        EAttr("kappa")), EPow(EAttr("theta_under"), 3)), EPow(EExp(EMul(EAttr("kappa"), EArg)), 3)),
        ELit(3))),
        ESub(ESub(ESub(EDiv(EMul(EDiv(EDiv(ELit(15), ELit(16)), EPow(EAttr("kappa"), 7)),
        EPow(EAttr("ss_under"), 3)), EPow(EExp(EMul(EAttr("kappa"), EArg)), 2)),
        EDiv(EMul(EDiv(EDiv(ELit(3), ELit(4)), EPow(EAttr("kappa"), 7)), EPow(EAttr("ss_under"), 3)),
        EExp(EMul(EAttr("kappa"), EArg)))), EDiv(EMul(EDiv(EDiv(ELit(5), ELit(6)), EPow(EAttr("kappa"),
        7)), EPow(EAttr("ss_under"), 3)), EPow(EExp(EMul(EAttr("kappa"), EArg)), 3))),
        EDiv(EMul(EMul(EDiv(ELit(1), EPow(EAttr("kappa"), 6)), EPow(EAttr("ss_under"), 3)), EArg),
        ELit(8))),
        ESub(EDiv(EMul(EDiv(EDiv(ELit(15), ELit(32)), EPow(EAttr("kappa"), 7)), EPow(EAttr("ss_under"),
        3)), EPow(EExp(EMul(EAttr("kappa"), EArg)), 4)), EDiv(EMul(EDiv(EDiv(ELit(3), ELit(20)),
        EPow(EAttr("kappa"), 7)), EPow(EAttr("ss_under"), 3)), EPow(EExp(EMul(EAttr("kappa"), EArg)),
        5))),
        ESub(ESub(EDiv(EDiv(EMul(EDiv(ELit(1), EPow(EAttr("kappa"), 7)), EPow(EAttr("ss_under"), 3)),
        EPow(EExp(EMul(EAttr("kappa"), EArg)), 6)), ELit(48)), EMul(EMul(EDiv(EDiv(ELit(25), ELit(192)),
        EPow(EAttr("kappa"), 9)), EPow(EAttr("ss_under"), 4)), EArg)), EMul(EMul(EDiv(EDiv(ELit(3),
        ELit(2)), EAttr("kappa")), EPow(EAttr("theta_under"), 4)), EArg)),
        ESub(EDiv(EDiv(EMul(EDiv(ELit(1), EPow(EAttr("kappa"), 10)), EPow(EAttr("ss_under"), 4)),
        EPow(EExp(EMul(EAttr("kappa"), EArg)), 8)), ELit(512)), EDiv(EDiv(EMul(EDiv(ELit(1),
        EPow(EAttr("kappa"), 10)), EPow(EAttr("ss_under"), 4)), EPow(EExp(EMul(EAttr("kappa"), EArg)),
        7)), ELit(48))),
        ESub(EDiv(EMul(EDiv(EDiv(ELit(59), ELit(576)), EPow(EAttr("kappa"), 10)), EPow(EAttr("ss_under"),
        4)), EPow(EExp(EMul(EAttr("kappa"), EArg)), 6)), EDiv(EMul(EDiv(EDiv(ELit(5), ELit(16)),
        EPow(EAttr("kappa"), 10)), EPow(EAttr("ss_under"), 4)), EPow(EExp(EMul(EAttr("kappa"), EArg)),
        5))),
        ESub(EDiv(EMul(EDiv(EDiv(ELit(497), ELit(768)), EPow(EAttr("kappa"), 10)),
        EPow(EAttr("ss_under"), 4)), EPow(EExp(EMul(EAttr("kappa"), EArg)), 4)),
        EDiv(EMul(EDiv(EDiv(ELit(133), ELit(144)), EPow(EAttr("kappa"), 10)), EPow(EAttr("ss_under"),
        4)), EPow(EExp(EMul(EAttr("kappa"), EArg)), 3))),
        ESub(EDiv(EMul(EDiv(EDiv(ELit(57), ELit(64)), EPow(EAttr("kappa"), 10)), EPow(EAttr("ss_under"),
        4)), EPow(EExp(EMul(EAttr("kappa"), EArg)), 2)), EDiv(EMul(EDiv(EDiv(ELit(25), ELit(48)),
        EPow(EAttr("kappa"), 10)), EPow(EAttr("ss_under"), 4)), EExp(EMul(EAttr("kappa"), EArg)))),
        EDiv(EMul(EMul(EDiv(ELit(1), EPow(EAttr("kappa"), 8)), EPow(EAttr("ss_under"), 4)), EPow(EArg,
        2)), ELit(32)),
        ESub(EDiv(EDiv(EMul(EDiv(ELit(1), EPow(EAttr("kappa"), 2)), EPow(EAttr("theta_under"), 4)),
        EPow(EExp(EMul(EAttr("kappa"), EArg)), 4)), ELit(8)), EDiv(EMul(EDiv(ELit(1),
        EPow(EAttr("kappa"), 2)), EPow(EAttr("theta_under"), 4)), EPow(EExp(EMul(EAttr("kappa"), EArg)),
        3))),
        ESub(EDiv(EMul(EDiv(EDiv(ELit(11), ELit(4)), EPow(EAttr("kappa"), 2)), EPow(EAttr("theta_under"),
        4)), EPow(EExp(EMul(EAttr("kappa"), EArg)), 2)), EDiv(EMul(EDiv(ELit(3), EPow(EAttr("kappa"),
        2)), EPow(EAttr("theta_under"), 4)), EExp(EMul(EAttr("kappa"), EArg)))),
        EDiv(EMul(EMul(EDiv(EDiv(ELit(1), EExp(EMul(EAttr("kappa"), EArg))), EPow(EAttr("kappa"), 9)),
        EPow(EAttr("ss_under"), 4)), EArg), ELit(4)),
        EMul(EMul(EDiv(EDiv(ELit(275), ELit(288)), EPow(EAttr("kappa"), 8)), EAttr("theta_under")),
        EPow(EAttr("ss_under"), 3)),
        EMul(EMul(EDiv(EDiv(ELit(709), ELit(288)), EPow(EAttr("kappa"), 6)), EPow(EAttr("theta_under"),
        2)), EPow(EAttr("ss_under"), 2)),
        ESub(EMul(EMul(EDiv(EDiv(ELit(2), EExp(EMul(EAttr("kappa"), EArg))), EAttr("kappa")),
        EPow(EAttr("theta_under"), 4)), EArg), EDiv(EMul(EMul(EDiv(EDiv(ELit(1),
        EPow(EExp(EMul(EAttr("kappa"), EArg)), 2)), EAttr("kappa")), EPow(EAttr("theta_under"), 4)),
        EArg), ELit(2))),
        ESub(EMul(EMul(EDiv(EDiv(ELit(11), ELit(4)), EPow(EAttr("kappa"), 4)), EPow(EAttr("theta_under"),
        3)), EAttr("ss_under")), EDiv(EMul(EMul(EDiv(EDiv(ELit(1), EPow(EExp(EMul(EAttr("kappa"), EArg)),
        4)), EPow(EAttr("kappa"), 9)), EPow(EAttr("ss_under"), 4)), EArg), ELit(64))),
        ESub(EDiv(EMul(EMul(EDiv(EDiv(ELit(1), EPow(EExp(EMul(EAttr("kappa"), EArg)), 3)),
        EPow(EAttr("kappa"), 9)), EPow(EAttr("ss_under"), 4)), EArg), ELit(12)),
        EMul(EMul(EDiv(EDiv(EDiv(ELit(3), ELit(16)), EPow(EExp(EMul(EAttr("kappa"), EArg)), 2)),
        EPow(EAttr("kappa"), 9)), EPow(EAttr("ss_under"), 4)), EArg)),
        EMul(EDiv(EDiv(ELit(11), ELit(6)), EAttr("kappa")), EPow(EAttr("theta_under"), 3)),
        EMul(EDiv(EDiv(ELit(49), ELit(160)), EPow(EAttr("kappa"), 7)), EPow(EAttr("ss_under"), 3)),
        ESub(EMul(EMul(EMul(EDiv(EDiv(ELit(5), EExp(EMul(EAttr("kappa"), EArg))), EPow(EAttr("kappa"),
        3)), EPow(EAttr("theta_under"), 3)), EAttr("ss_under")), EArg),
        EDiv(EMul(EMul(EMul(EDiv(EDiv(ELit(1), EPow(EExp(EMul(EAttr("kappa"), EArg)), 4)),
        EPow(EAttr("kappa"), 7)), EAttr("theta_under")), EPow(EAttr("ss_under"), 3)), EArg), ELit(16))),
        ESub(ESub(EMul(EMul(EMul(EDiv(EDiv(EDiv(ELit(5), ELit(12)), EPow(EExp(EMul(EAttr("kappa"),
        EArg)), 3)), EPow(EAttr("kappa"), 7)), EAttr("theta_under")), EPow(EAttr("ss_under"), 3)), EArg),
        EDiv(EMul(EMul(EMul(EDiv(EDiv(ELit(1), EPow(EExp(EMul(EAttr("kappa"), EArg)), 4)),
        EPow(EAttr("kappa"), 5)), EPow(EAttr("theta_under"), 2)), EPow(EAttr("ss_under"), 2)), EArg),
        ELit(16))), EMul(EMul(EMul(EDiv(EDiv(EDiv(ELit(9), ELit(8)), EPow(EExp(EMul(EAttr("kappa"),
        EArg)), 2)), EPow(EAttr("kappa"), 7)), EAttr("theta_under")), EPow(EAttr("ss_under"), 3)),
        EArg)),
        EMul(EDiv(EDiv(ELit(9), ELit(8)), EPow(EAttr("kappa"), 2)), EPow(EAttr("theta_under"), 4)),
        EMul(EDiv(EDiv(ELit(625), ELit(4608)), EPow(EAttr("kappa"), 10)), EPow(EAttr("ss_under"), 4)) >>

\* acc + vs[i] + ... + vs[Len(vs)], added left to right
RECURSIVE SumUp(_, _, _)
SumUp(acc, vs, i) ==
    IF i > Len(vs) THEN acc
    ELSE LET next == Add(acc, vs[i])
         IN  IF IsErr(next) THEN next ELSE SumUp(next, vs, i + 1)

\* sum(vs) as Python computes it, from start
SumFrom(start, vs) == SumUp(start, vs, 1)

\* lines 187-215 with both lists computed: an exception in terms leaves the
\* function; an exception in the try block replaces the whole of
\* difficult_terms by [0]
v2_symmetric_return(terms, difficult_terms) ==
    IF FirstErr(terms) # "" THEN Err(FirstErr(terms))
    ELSE IF FirstErr(difficult_terms) # "" THEN SumFrom(F(0), terms \o <<F(0)>>)
    ELSE SumFrom(F(0), terms \o difficult_terms)

v2_symmetric(obj, t) ==
    v2_symmetric_return(EvalAll(v2_symmetric_terms, obj, t),
                        EvalAll(v2_symmetric_difficult_terms, obj, t))

\* whether the except clause ran, so that the warning is printed
v2_symmetric_warned(obj, t) ==
    /\ FirstErr(EvalAll(v2_symmetric_terms, obj, t)) = ""
    /\ FirstErr(EvalAll(v2_symmetric_difficult_terms, obj, t)) # ""

\* lines 46-51 with the factors computed
series_return(u0_, epsilon, pm, v1s, v1a, v2s, v2a) ==
    << u0_,
       Mul(Mul(u0_, epsilon), v1s),
       Mul(Mul(Mul(u0_, epsilon), pm), v1a),
       Mul(Mul(u0_, PowInt(epsilon, 2)), v2s),
       Mul(Mul(Mul(u0_, PowInt(epsilon, 2)), pm), v2a) >>

\* series with the sign taken from s = 1 alone, so that any other s counts as 0
series_only_one(obj, t, x, s) ==
    series_return(u0(obj, t, x), Div(F(1), obj.lmbd), IF s = 1 THEN F(-1) ELSE F(1),
                  v1_symmetric(obj, t), v1_antisymmetric(obj, t),
                  v2_symmetric(obj, t), v2_antisymmetric(obj, t))

\* series: the five entries; an entry that is an exception means series raised it
series(obj, t, x, s) ==
    series_return(u0(obj, t, x), Div(F(1), obj.lmbd), IF s = 0 THEN F(1) ELSE F(-1),
                  v1_symmetric(obj, t), v1_antisymmetric(obj, t),
                  v2_symmetric(obj, t), v2_antisymmetric(obj, t))

\* np.nansum: every NaN counts as zero, everything else is added up
nansum(vs) == SumFrom(F(0), [i \in 1..Len(vs) |-> IF IsNaN(vs[i]) THEN F(0) ELSE vs[i]])

\* line 56 with series computed
u_return(series_) ==
    IF FirstErr(series_) # "" THEN Err(FirstErr(series_)) ELSE nansum(series_)

u(obj, t, x, s) == u_return(series(obj, t, x, s))

-----------------------------------------------------------------------------
(* SlowSimulator (src/homogenize/slow.py) *)

\* lines 16-21: the attributes the validator adds to the model's
SlowSimulator_attrs(super, ts, x, s) ==
    super @@ [ts |-> ts, x |-> x, s |-> s,
              integrals |-> [k \in 1..Len(ts) |-> RSNew],
              exp_int |-> [k \in 1..Len(ts) |-> RSNew],
              survival |-> [k \in 1..Len(ts) |-> F(1)],
              survival1 |-> <<>>,
              survival_std |-> <<>>]

\* lines 15-21 once super().__init__ has run
SlowSimulator_body(super, ts, x, s) ==
    IF super.exc # "" THEN [exc |-> super.exc, obj |-> NoObject]
    ELSE IF ~Lt(F(0), ts[1]) THEN [exc |-> "AssertionError", obj |-> NoObject]
    ELSE [exc |-> "", obj |-> SlowSimulator_attrs(super.obj, ts, x, s)]

\* __init__: the model's attributes, the assert on ts[0], the empty accumulators
SlowSimulator_init(kappa, thetas, sigmas, lmbd, ts, x, s) ==
    SlowSimulator_body(RegimeSwitchingModel_init(kappa, thetas, sigmas, lmbd), ts, x, s)

\* np.diff([0] + ts)
dts(ts) == [k \in 1..Len(ts) |-> Sub(ts[k], IF k = 1 THEN F(0) ELSE ts[k - 1])]

\* line 31, z the draw of randn()
step_xt(obj, acc, dt, z) ==
    Add(Add(acc.xt, Mul(Mul(obj.kappa, Sub(obj.thetas[acc.st + 1], acc.xt)), dt)),
        Mul(Mul(obj.sigmas[acc.st + 1], z), Sqrt(dt)))

\* line 32
step_intx(acc, dt, xt) == Add(acc.intx, Div(Mul(dt, Add(acc.xt, xt)), F(2)))

\* lines 33-36, e the value or exception of math.exp(-intx), r the draw of
\* rand(); acc.exc names the exception that left the loop
step_push(obj, acc, k, dt, xt, intx, e, r) ==
    IF IsErr(xt) THEN [acc EXCEPT !.exc = xt.k]
    ELSE IF IsErr(e)
         THEN [acc EXCEPT !.integrals[k] = RSPush(@, intx), !.exc = e.k]
    ELSE [integrals |-> [acc.integrals EXCEPT ![k] = RSPush(@, intx)],
          exp_int |-> [acc.exp_int EXCEPT ![k] = RSPush(@, e)],
          xt |-> xt,
          intx |-> intx,
          st |-> IF Lt(r, Mul(dt, obj.lmbd)) THEN 1 - acc.st ELSE acc.st,
          exc |-> ""]

step_34(obj, acc, k, dt, xt, intx, r) ==
    step_push(obj, acc, k, dt, xt, intx, Exp(Neg(intx)), r)

step_32(obj, acc, k, dt, xt, r) ==
    step_34(obj, acc, k, dt, xt, step_intx(acc, dt, xt), r)

\* the inner loop body with the regime switch moved to the top of the pass: the
\* switch decided at index k already steers the step at index k
simulate_step_switch_first(obj, acc, k, dt, dr) ==
    step_32(obj, [acc EXCEPT !.st = IF Lt(dr.u, Mul(dt, obj.lmbd)) THEN 1 - @ ELSE @],
            k, dt, step_xt(obj, [acc EXCEPT !.st = IF Lt(dr.u, Mul(dt, obj.lmbd))
                                                    THEN 1 - @ ELSE @], dt, dr.z),
            PInf)

\* one pass of the inner loop body, lines 30-36, at grid index k with the draws
\* dr.z of randn() and dr.u of rand()
simulate_step(obj, acc, k, dt, dr) ==
    step_32(obj, acc, k, dt, step_xt(obj, acc, dt, dr.z), dr.u)

\* a path that goes on from where the path before it ended
path_start_carry_on(obj, acc, k) == acc

\* lines 26-28: a path starts from x, s and integral 0
path_start(obj, acc, k) ==
    IF k = 1 THEN [acc EXCEPT !.xt = obj.x, !.st = obj.s, !.intx = F(0)] ELSE acc

\* the two loops of lines 25-36: step i (from 0) is grid index i % K of path
\* i \div K; an exception ends the run
RECURSIVE simulate_loop(_, _, _, _, _)
simulate_loop(obj, acc, draws, i, total) ==
    IF i >= total \/ acc.exc # "" THEN acc
    ELSE simulate_loop(obj,
                       simulate_step(obj, path_start(obj, acc, (i % Len(obj.ts)) + 1),
                                     (i % Len(obj.ts)) + 1,
                                     dts(obj.ts)[(i % Len(obj.ts)) + 1], draws[i + 1]),
                       draws, i + 1, total)

\* line 37; undef is what an accumulator with no push answers
simulate_survival(obj, undef) ==
    [k \in 1..Len(obj.ts) |->
        Exp(Add(Neg(RSMean(obj.integrals[k], undef)),
                Mul(Q(1, 2), RSVariance(obj.integrals[k], undef))))]

\* line 38
simulate_survival1(obj, undef) ==
    [k \in 1..Len(obj.ts) |-> RSMean(obj.exp_int[k], undef)]

\* line 39
simulate_survival_std(obj, undef) ==
    [k \in 1..Len(obj.ts) |-> Sqrt(RSVariance(obj.exp_int[k], undef))]

\* lines 37-39 assign in turn; the first that raises leaves the later
\* attributes as they were
simulate_assign(obj, survival, survival1, survival_std) ==
    IF FirstErr(survival) # "" THEN [obj |-> obj, exc |-> FirstErr(survival)]
    ELSE IF FirstErr(survival1) # ""
         THEN [obj |-> [obj EXCEPT !.survival = survival], exc |-> FirstErr(survival1)]
    ELSE IF FirstErr(survival_std) # ""
         THEN [obj |-> [obj EXCEPT !.survival = survival, !.survival1 = survival1],
               exc |-> FirstErr(survival_std)]
    ELSE [obj |-> [obj EXCEPT !.survival = survival, !.survival1 = survival1,
                              !.survival_std = survival_std],
          exc |-> ""]

\* whether line 37 called mean() on an accumulator with no push
simulate_read_empty(obj, survival) ==
    \E k \in 1..Len(obj.ts) :
        /\ obj.integrals[k].n = 0
        /\ \A j \in 1..(k - 1) : ~IsErr(survival[j])

\* lines 37-39 on the object the loops left
simulate_estimate(obj, undef) ==
    simulate_assign(obj, simulate_survival(obj, undef), simulate_survival1(obj, undef),
                    simulate_survival_std(obj, undef))
        @@ [readEmpty |-> simulate_read_empty(obj, simulate_survival(obj, undef))]

\* the object with the accumulators the loops left, and what follows them
simulate_finish(obj, acc, undef) ==
    IF acc.exc # ""
    THEN [obj |-> [obj EXCEPT !.integrals = acc.integrals, !.exp_int = acc.exp_int],
          exc |-> acc.exc, readEmpty |-> FALSE]
    ELSE simulate_estimate([obj EXCEPT !.integrals = acc.integrals,
                                       !.exp_int = acc.exp_int], undef)

\* simulate(num): the object afterwards, the exception raised ("" if none) and
\* whether line 37 read an accumulator with no push.  draws holds one (z, u)
\* per step.
simulate(obj, num, draws, undef) ==
    simulate_finish(obj,
                    simulate_loop(obj,
                        [integrals |-> obj.integrals, exp_int |-> obj.exp_int,
                         xt |-> obj.x, intx |-> F(0), st |-> obj.s, exc |-> ""],
                        draws, 0, (IF num > 0 THEN num ELSE 0) * Len(obj.ts)),
                    undef)

-----------------------------------------------------------------------------
(* Bounds and inputs *)

\* the most paths a validator is asked for over its life
MaxPaths == 2

\* the most simulate calls made on one validator
MaxCalls == 3

\* the arguments the constructors are tried with
Kappas == {F(-1), F(0), Q(1, 32), F(1), F(2)}

ThetasSet == {<<Q(1, 4), F(0)>>, <<F(2), F(-2)>>}

SigmasSet == {<<Q(1, 2), F(0)>>, <<F(3), F(1)>>}

Lmbds == {F(-1), F(0), Q(1, 32), F(2)}

Times == {F(0), F(1), F(3)}

Xs == {F(0), F(-1), F(40)}

\* the x of the u0_check calls: those of the other calls and one so far below
\* zero that exp(-tau*x) is out of range
CheckXs == Xs \cup {F(-15)}

Regimes == {0, 1, 2}

\* the validator's arguments: grids well formed and malformed, and a start so
\* far below zero that exp(-integral) leaves the number range on some paths
Grids == {<<F(1)>>, <<F(1), F(2)>>, <<F(0), F(1)>>, <<F(2), F(1)>>, <<F(1), F(1)>>}

Starts == {F(0), F(-15)}

Nums == -1..MaxPaths

\* the draws of randn() and of rand() for one step: the noise down and the
\* regime switching, or the noise up and the regime staying
Draws == {[z |-> F(-1), u |-> F(0)], [z |-> F(1), u |-> Q(1, 2)]}

-----------------------------------------------------------------------------
(* The calls *)

\* a call as its caller sees it: the method and its arguments, the object as it
\* was before the call, and what the call returned, printed and read
NoCall == [op |-> "", num |-> 0, t |-> F(0), x |-> F(0), s |-> 0, before |-> NoObject,
           ret |-> <<>>, warned |-> FALSE, readEmpty |-> FALSE]

NoTwin == [obj |-> NoObject, exc |-> "", done |-> FALSE]

NoSeed == [draws |-> <<>>, a |-> 0, b |-> 0]

\* the kind of exception a returned value stands for, "" if it is a value
Raised(ret) == FirstErr(ret)

\* the paths asked for by the calls so far
RECURSIVE Requested(_)
Requested(ns) ==
    IF ns = <<>> THEN 0
    ELSE (IF Head(ns) > 0 THEN Head(ns) ELSE 0) + Requested(Tail(ns))

Init ==
    /\ state = "start"
    /\ self = NoObject
    /\ exc = ""
    /\ call = NoCall
    /\ calls = <<>>
    /\ twin = NoTwin
    /\ seed = NoSeed

\* SlowSimulator(kappa, thetas, sigmas, lmbd, ts, x, s)
Construct ==
    /\ state = "start"
    /\ \E ts \in Grids, x \in Starts, s \in {0, 1} :
       \E r \in {SlowSimulator_init(F(1), <<F(0), F(1)>>, <<F(1), F(2)>>, Q(1, 2),
                                    ts, x, s)} :
              /\ state' = IF r.exc = "" THEN "constructed" ELSE "rejected"
              /\ self' = r.obj
              /\ exc' = r.exc
              /\ call' = [NoCall EXCEPT !.op = "__init__"]
    /\ UNCHANGED <<calls, twin, seed>>

\* self.simulate(num)
Simulate(num) ==
    /\ state = "constructed"
    /\ Len(calls) < MaxCalls
    /\ Requested(calls) + num <= MaxPaths
    /\ \E draws \in [1..((IF num > 0 THEN num ELSE 0) * Len(self.ts)) -> Draws],
          undef \in Undefined :
       \E r \in {simulate(self, num, draws, undef)} :
              /\ self' = r.obj
              /\ exc' = r.exc
              /\ call' = [NoCall EXCEPT !.op = "simulate", !.num = num,
                                        !.before = self,
                                        !.readEmpty = r.readEmpty]
    /\ calls' = Append(calls, num)
    /\ UNCHANGED <<state, twin, seed>>

Next == Construct \/ \E num \in Nums : Simulate(num)

Spec == Init /\ [][Next]_vars

-----------------------------------------------------------------------------
(* Batch splitting: two validators built with the same arguments consume   *)
(* the same draws, one in two calls simulate(a), simulate(b), the other in *)
(* one call simulate(a + b)                                                *)

\* draws[from + 1 .. from + n] as a sequence of its own
Slice(draws, from, n) == [i \in 1..n |-> draws[from + i]]

\* both constructor calls, and the seed: the draws and the split
ConstructPair ==
    /\ state = "start"
    /\ \E ts \in Grids, x \in Starts, s \in {0, 1} :
       \E r \in {SlowSimulator_init(F(1), <<F(0), F(1)>>, <<F(1), F(2)>>, Q(1, 2),
                                    ts, x, s)} :
       \E a \in 1..MaxPaths, b \in 1..MaxPaths :
          /\ a + b <= MaxPaths
          /\ \E draws \in [1..((a + b) * Len(ts)) -> Draws] :
                seed' = [draws |-> draws, a |-> a, b |-> b]
          /\ state' = IF r.exc = "" THEN "constructed" ELSE "rejected"
          /\ self' = r.obj
          /\ twin' = [NoTwin EXCEPT !.obj = r.obj]
          /\ exc' = r.exc
          /\ call' = [NoCall EXCEPT !.op = "__init__"]
    /\ UNCHANGED calls

\* the first validator's next call: simulate(a), then simulate(b) unless the
\* first raised
SplitSimulate ==
    /\ state = "constructed"
    /\ seed.a > 0
    /\ Len(calls) < 2
    /\ exc = ""
    /\ \E num \in {IF calls = <<>> THEN seed.a ELSE seed.b}, undef \in Undefined :
       \E r \in {simulate(self, num,
                          Slice(seed.draws, Requested(calls) * Len(self.ts),
                                num * Len(self.ts)),
                          undef)} :
          /\ self' = r.obj
          /\ exc' = r.exc
          /\ call' = [NoCall EXCEPT !.op = "simulate", !.num = num, !.before = self,
                                    !.readEmpty = r.readEmpty]
          /\ calls' = Append(calls, num)
    /\ UNCHANGED <<state, twin, seed>>

\* the second validator's only call: simulate(a + b)
TwinSimulate ==
    /\ state = "constructed"
    /\ seed.a > 0
    /\ ~twin.done
    /\ \E undef \in Undefined :
       \E r \in {simulate(twin.obj, seed.a + seed.b, seed.draws, undef)} :
          twin' = [obj |-> r.obj, exc |-> r.exc, done |-> TRUE]
    /\ UNCHANGED <<state, self, exc, call, calls, seed>>

NextSplit == ConstructPair \/ SplitSimulate \/ TwinSimulate

SpecSplit == Init /\ [][NextSplit]_vars

-----------------------------------------------------------------------------
(* The validator's contract *)

\* a grid as the contract wants it: first element above zero, strictly increasing
WellFormedGrid(ts) ==
    /\ Lt(F(0), ts[1])
    /\ \A k \in 2..Len(ts) : Lt(ts[k - 1], ts[k])

\* whether every grid index of obj holds n pushes in both accumulators
AllCounts(obj, n) ==
    \A k \in 1..Len(obj.ts) : obj.integrals[k].n = n /\ obj.exp_int[k].n = n

\* C1: simulate is cumulative.  On a validator that has only had calls
\* simulate(n) with n >= 1, every accumulator of integrals and of exp_int has
\* received exactly the sum of the n pushes, the same at every grid index.
C1_Cumulative ==
    (state = "constructed" /\ \A i \in 1..Len(calls) : calls[i] >= 1)
        => AllCounts(self, Requested(calls))

\* C1, the case the claim describes: two batches of one path each have run to
\* the end and every accumulator holds two pushes
C1_TwoBatches ==
    /\ state = "constructed"
    /\ calls = <<1, 1>>
    /\ exc = ""
    /\ AllCounts(self, 2)

\* C3: simulation never partially fails.  After a call simulate(num), num >= 1,
\* on a well-formed grid, either it returned and every accumulator holds num pushes more than before,
\* or it raised and the validator is as it was before the call; either way
\* integrals[k] and exp_int[k] hold the same count.
C3_NeverPartiallyFails ==
    (call.op = "simulate" /\ call.num >= 1 /\ WellFormedGrid(self.ts))
        => /\ IF exc = ""
              THEN \A k \in 1..Len(self.ts) :
                      /\ self.integrals[k].n = call.before.integrals[k].n + call.num
                      /\ self.exp_int[k].n = call.before.exp_int[k].n + call.num
              ELSE self = call.before
           /\ \A k \in 1..Len(self.ts) : self.integrals[k].n = self.exp_int[k].n

\* C3, the failure: math.exp raised between the two pushes of a step, so one
\* grid index holds an integral without its exponential
C3_HalfPushed ==
    /\ call.op = "simulate"
    /\ WellFormedGrid(self.ts)
    /\ exc = "OverflowError"
    /\ \E k \in 1..Len(self.ts) : self.integrals[k].n = self.exp_int[k].n + 1

\* C4: a malformed grid is rejected at construction.  Every validator that
\* exists has a grid whose first element is above zero and that increases
\* strictly, so simulate never runs on any other.
C4_MalformedGridRejected == state = "constructed" => WellFormedGrid(self.ts)

\* C4, the failure: the constructor accepted a decreasing grid and simulate
\* raised on it in the middle of a path
C4_FailsMidSimulation ==
    /\ call.op = "simulate"
    /\ ~WellFormedGrid(self.ts)
    /\ exc = "ValueError"
    /\ self.integrals[1].n = 1

\* C6: on a well-formed grid simulate(num) with num <= 0 leaves the validator
\* exactly as it was, whether it raises or returns, and reads no mean() or
\* variance() of an accumulator that has had no push.
C6_NonPositiveNum ==
    (call.op = "simulate" /\ call.num <= 0 /\ WellFormedGrid(self.ts))
        => (self = call.before /\ ~call.readEmpty)

\* C6, the failure: simulate(0) on a fresh validator went on to line 37 and
\* read the empty accumulators
C6_ReadsEmpty ==
    /\ call.op = "simulate"
    /\ WellFormedGrid(self.ts)
    /\ call.num = 0
    /\ calls = <<0>>
    /\ call.readEmpty

\* what a validator exposes: the accumulators and the three estimators
Exposed(obj) ==
    <<obj.integrals, obj.exp_int, obj.survival, obj.survival1, obj.survival_std>>

\* both validators have made their calls
SplitDone ==
    /\ state = "constructed"
    /\ twin.done
    /\ (Len(calls) = 2 \/ exc # "")

\* C2: splitting a batch does not change the result.  Once the first validator
\* has run simulate(a) and simulate(b) and the second simulate(a + b) on the
\* same draws, both hold the same accumulators and the same survival,
\* survival1 and survival_std.
C2_SplitEquivalence == SplitDone => Exposed(self) = Exposed(twin.obj)

\* C2, the case the claim describes: all three calls returned and the two
\* validators agree
C2_SplitAgrees ==
    /\ SplitDone
    /\ calls = <<seed.a, seed.b>>
    /\ exc = ""
    /\ twin.exc = ""
    /\ Exposed(self) = Exposed(twin.obj)

\* the draws of the path a call begins after `done` paths of the seed
PathDraws(obj, done) == Slice(seed.draws, done * Len(obj.ts), Len(obj.ts))

\* the regime switches decided at the grid indices before k of a path whose
\* draws are dr
SwitchesBefore(obj, dr, k) ==
    Cardinality({j \in 1..(k - 1) : Lt(dr[j].u, Mul(dts(obj.ts)[j], obj.lmbd))})

\* the regime in force at grid index k: the initial one, switched once for
\* every switch decided at an earlier index
RegimeAt(obj, dr, k) ==
    IF SwitchesBefore(obj, dr, k) % 2 = 0 THEN obj.s ELSE 1 - obj.s

\* the state xp advanced over dt with the drift and volatility of regime r
Advanced(obj, xp, r, dt, z) ==
    Add(Add(xp, Mul(Mul(obj.kappa, Sub(obj.thetas[r + 1], xp)), dt)),
        Mul(Mul(obj.sigmas[r + 1], z), Sqrt(dt)))

\* the state after the step at grid index k of a path that starts from obj.x
RECURSIVE StateAt(_, _, _)
StateAt(obj, dr, k) ==
    IF k = 0 THEN obj.x
    ELSE Advanced(obj, StateAt(obj, dr, k - 1), RegimeAt(obj, dr, k),
                  dts(obj.ts)[k], dr[k].z)

\* the trapezoidal integral up to grid index k of that path
RECURSIVE IntegralAt(_, _, _)
IntegralAt(obj, dr, k) ==
    IF k = 0 THEN F(0)
    ELSE Add(IntegralAt(obj, dr, k - 1),
             Div(Mul(dts(obj.ts)[k], Add(StateAt(obj, dr, k - 1), StateAt(obj, dr, k))),
                 F(2)))

\* acc after index k received the integral v and then its exponential e: a
\* step that raises ends the run, after the first push when it is e that raises
Pushed(acc, k, xk, v, e) ==
    IF IsErr(xk) THEN [acc EXCEPT !.exc = xk.k]
    ELSE IF IsErr(e) THEN [acc EXCEPT !.integrals[k] = RSPush(@, v), !.exc = e.k]
    ELSE [acc EXCEPT !.integrals[k] = RSPush(@, v), !.exp_int[k] = RSPush(@, e)]

\* the accumulators acc after the grid indices k, k+1, ... of the path with
\* draws dr, one push of each kind at each index in turn
RECURSIVE PathPushes(_, _, _, _)
PathPushes(obj, acc, dr, k) ==
    IF k > Len(obj.ts) \/ acc.exc # "" THEN acc
    ELSE PathPushes(obj,
                    Pushed(acc, k, StateAt(obj, dr, k), IntegralAt(obj, dr, k),
                           Exp(Neg(IntegralAt(obj, dr, k)))),
                    dr, k + 1)

\* the accumulators acc after the paths p, p+1, ..., n-1 of the seed, each
\* started from obj.x and obj.s
RECURSIVE RunPushes(_, _, _, _)
RunPushes(obj, acc, p, n) ==
    IF p >= n \/ acc.exc # "" THEN acc
    ELSE RunPushes(obj, PathPushes(obj, acc, PathDraws(obj, p), 1), p + 1, n)

\* the accumulators of obj, and no exception yet
Accumulators(obj) ==
    [integrals |-> obj.integrals, exp_int |-> obj.exp_int, exc |-> ""]

\* whether the call that left obj with the exception e did to the
\* accumulators what r says
Accumulated(obj, e, r) ==
    /\ obj.integrals = r.integrals
    /\ obj.exp_int = r.exp_int
    /\ r.exc # "" => e = r.exc

Setup(obj) ==
    <<obj.kappa, obj.thetas, obj.sigmas, obj.lmbd, obj.theta_bar, obj.ss_bar,
      obj.theta_under, obj.ss_under, obj.epsilon, obj.ts, obj.x, obj.s>>

\* the empty accumulators of a validator just constructed
Allocated(obj) ==
    [integrals |-> [k \in 1..Len(obj.ts) |-> RSNew],
     exp_int |-> [k \in 1..Len(obj.ts) |-> RSNew],
     exc |-> ""]

\* C13: simulate never modifies x, s, ts or the model parameters, and every
\* path starts from them.  Every simulate call, returning or raising, leaves
\* what the constructor fixed as it was; and the accumulators a validator
\* holds after simulate(a + b) are those of a + b paths each started from the
\* constructor's x and s with integral 0, whatever the paths before ended with.
C13_PathsStartAfresh ==
    /\ call.op = "simulate" => Setup(self) = Setup(call.before)
    /\ twin.done
          => /\ Setup(twin.obj) = Setup(self)
             /\ \A r \in {RunPushes(self, Allocated(self), 0, seed.a + seed.b)} :
                   Accumulated(twin.obj, twin.exc, r)

\* C13, the case the claim is about: simulate(2) returned, and its first path
\* had ended in the other regime and away from x
C13_SecondPathAfterSwitch ==
    /\ twin.done
    /\ twin.exc = ""
    /\ seed.a + seed.b = 2
    /\ twin.obj.integrals[1].n = 2
    /\ \E dr \in {PathDraws(self, 0)} :
          /\ RegimeAt(self, dr, Len(self.ts) + 1) = 1 - self.s
          /\ StateAt(self, dr, Len(self.ts)) # self.x

-----------------------------------------------------------------------------
(* The analytic model on its own *)

\* RegimeSwitchingModel(kappa, thetas, sigmas, lmbd)
NewModel ==
    /\ state = "start"
    /\ \E kappa \in Kappas, thetas \in ThetasSet, sigmas \in SigmasSet, lmbd \in Lmbds :
       \E r \in {RegimeSwitchingModel_init(kappa, thetas, sigmas, lmbd)} :
              /\ state' = IF r.exc = "" THEN "constructed" ELSE "rejected"
              /\ self' = IF r.exc = "" THEN r.obj ELSE NoObject
              /\ exc' = r.exc
              /\ call' = [NoCall EXCEPT !.op = "__init__"]
    /\ UNCHANGED <<calls, twin, seed>>

\* a call of a method of the model: what it returned or raised.  No method
\* changes the object, so one call on each constructed object covers them all.
Returns(op, t, x, s, ret, warned) ==
    /\ call.op = "__init__"
    /\ call' = [NoCall EXCEPT !.op = op, !.t = t, !.x = x, !.s = s,
                              !.ret = ret, !.warned = warned]
    /\ exc' = Raised(ret)
    /\ UNCHANGED <<state, self, calls, twin, seed>>

CallTau ==
    /\ state = "constructed"
    /\ \E t \in Times : Returns("tau", t, F(0), 0, <<tau(self, t)>>, FALSE)

CallA0 ==
    /\ state = "constructed"
    /\ \E t \in Times : Returns("a0", t, F(0), 0, <<a0(self, t)>>, FALSE)

CallU0 ==
    /\ state = "constructed"
    /\ \E t \in Times, x \in Xs : Returns("u0", t, x, 0, <<u0(self, t, x)>>, FALSE)

CallU0Check ==
    /\ state = "constructed"
    /\ \E t \in Times, x \in CheckXs :
          Returns("u0_check", t, x, 0, <<u0_check(self, t, x)>>, FALSE)

CallV1Symmetric ==
    /\ state = "constructed"
    /\ \E t \in Times : Returns("v1_symmetric", t, F(0), 0, <<v1_symmetric(self, t)>>, FALSE)

CallV1Antisymmetric ==
    /\ state = "constructed"
    /\ \E t \in Times :
          Returns("v1_antisymmetric", t, F(0), 0, <<v1_antisymmetric(self, t)>>, FALSE)

CallV2Antisymmetric ==
    /\ state = "constructed"
    /\ \E t \in Times :
          Returns("v2_antisymmetric", t, F(0), 0, <<v2_antisymmetric(self, t)>>, FALSE)

CallV2Symmetric ==
    /\ state = "constructed"
    /\ \E t \in Times :
          Returns("v2_symmetric", t, F(0), 0, <<v2_symmetric(self, t)>>,
                  v2_symmetric_warned(self, t))

CallSeries ==
    /\ state = "constructed"
    /\ \E t \in Times, x \in Xs, s \in Regimes :
          Returns("series", t, x, s, series(self, t, x, s), FALSE)

CallU ==
    /\ state = "constructed"
    /\ \E t \in Times, x \in Xs, s \in Regimes :
          Returns("u", t, x, s, <<u(self, t, x, s)>>, FALSE)

NextModel ==
    \/ NewModel \/ CallTau \/ CallA0 \/ CallU0 \/ CallU0Check
    \/ CallV1Symmetric \/ CallV1Antisymmetric \/ CallV2Antisymmetric
    \/ CallV2Symmetric \/ CallSeries \/ CallU

SpecModel == Init /\ [][NextModel]_vars

-----------------------------------------------------------------------------
(* The analytic model's contract *)

\* the parameters the contract calls valid
ValidParameters(obj) == Lt(F(0), obj.kappa) /\ Lt(F(0), obj.lmbd)

\* C5: invalid model parameters are rejected at construction.  Every model
\* object that exists has kappa > 0 and lmbd > 0.
C5_InvalidParametersRejected ==
    state = "constructed" => ValidParameters(self)

\* C5, the failure: the constructor accepted kappa = 0 and the division by it
\* was left to the first call of tau
C5_DeferredToFirstUse ==
    /\ call.op = "tau"
    /\ self.kappa = F(0)
    /\ exc = "ZeroDivisionError"

\* the entries with every NaN and every infinity replaced by zero
FiniteOnly(vs) == [i \in 1..Len(vs) |-> IF IsFin(vs[i]) THEN vs[i] ELSE F(0)]

\* the five entries added from the left
Sum5(vs) == Add(Add(Add(Add(Add(F(0), vs[1]), vs[2]), vs[3]), vs[4]), vs[5])

\* an infinite entry beside a finite one that is not zero
InfiniteBesideFinite(vs) ==
    \E i, j \in 1..5 : IsInf(vs[i]) /\ IsFin(vs[j]) /\ vs[j] # F(0)

\* C7, the failure: u returned for a series with an infinite entry beside
\* finite ones, and what it returned is not finite
C7_InfiniteEntry ==
    /\ call.op = "u"
    /\ exc = ""
    /\ ValidParameters(self)
    /\ ~IsFin(call.ret[1])
    /\ \E vs \in {series(self, call.t, call.x, call.s)} : InfiniteBesideFinite(vs)

\* C7: for valid parameters u(t,x,s) is the sum of the finite entries of
\* series(t,x,s) only; NaN, +infinity and -infinity entries contribute zero.
C7_NonFiniteContributeZero ==
    (call.op = "u" /\ exc = "" /\ ValidParameters(self))
        => \A vs \in {series(self, call.t, call.x, call.s)} :
              call.ret[1] = Sum5(FiniteOnly(vs))

\* the sub-terms of v2_symmetric, all of them, in the order of the source
SubTerms(obj, t) ==
    EvalAll(v2_symmetric_terms, obj, t) \o EvalAll(v2_symmetric_difficult_terms, obj, t)

\* what C8 says of a call that raised exc or returned ret, having printed the
\* warning or not, when the sub-terms are vs
PerSubTerm(e, ret, warned, vs) ==
    /\ e = ""
    /\ ret = SumFrom(F(0), FiniteOnly(vs))
    /\ warned <=> (\E i \in 1..Len(vs) : ~IsFin(vs[i]))

\* C8: v2_symmetric degrades per sub-term and observably.  For valid
\* parameters it returns a value; the value is the sum of exactly the
\* sub-terms that are finite values; and the caller is told so exactly when
\* some sub-term was left out.
C8_PerSubTerm ==
    (call.op = "v2_symmetric" /\ ValidParameters(self))
        => \A vs \in {SubTerms(self, call.t)} :
              PerSubTerm(exc, call.ret[1], call.warned, vs)

\* whether some entry of vs is a finite value other than zero
SomeFiniteNonZero(vs) == \E i \in 1..Len(vs) : IsFin(vs[i]) /\ vs[i] # F(0)

\* C8, the failure: one sub-term of the try block raised and a sub-term beside
\* it, finite and not zero, was dropped with it
C8_WholeGroupDropped ==
    /\ call.op = "v2_symmetric"
    /\ ValidParameters(self)
    /\ call.warned
    /\ exc = ""
    /\ \E vs \in {EvalAll(v2_symmetric_difficult_terms, self, call.t)} :
          SomeFiniteNonZero(vs)

\* what C9 says of the entries s0 of series(t,x,0) and s1 of series(t,x,1)
RegimeSymmetry(s0, s1) ==
    /\ Raised(s0) = Raised(s1)
    /\ Raised(s0) = ""
          => /\ \A i \in {1, 2, 4} : s0[i] = s1[i]
             /\ \A i \in {3, 5} : s0[i] = Neg(s1[i])

\* C9: series(t,x,0) and series(t,x,1) raise alike; when they return, the
\* entries at indices 0, 1 and 3 are equal and those at 2 and 4 are negations
\* of each other; and any s other than 0 gives what s = 1 gives.
C9_RegimeSymmetry ==
    call.op = "series"
        => \A s0 \in {series(self, call.t, call.x, 0)},
              s1 \in {series(self, call.t, call.x, 1)} :
              /\ RegimeSymmetry(s0, s1)
              /\ call.ret = IF call.s = 0 THEN s0 ELSE s1

\* C9, the case the claim is about: series returned for an s that is neither 0
\* nor 1, with antisymmetric entries that are finite and not zero
C9_OtherRegime ==
    /\ call.op = "series"
    /\ call.s = 2
    /\ exc = ""
    /\ \A i \in {3, 5} : IsFin(call.ret[i]) /\ call.ret[i] # F(0)

\* C10: at maturity the zeroth-order term is exactly one.  For kappa > 0 and
\* lmbd > 0 and every x, tau(0) = 0, a0(0) = 0 and u0(0,x) = 1.
C10_MaturityIsOne ==
    (state = "constructed" /\ ValidParameters(self) /\ call.t = F(0))
        => /\ call.op = "tau" => call.ret = <<F(0)>>
           /\ call.op = "a0" => call.ret = <<F(0)>>
           /\ call.op = "u0" => call.ret = <<F(1)>>

\* C10, the case the claim describes: u0(0, x) is one for an ordinary kappa
\* and an x far from zero
C10_OrdinaryParameters ==
    /\ call.op = "u0"
    /\ ValidParameters(self)
    /\ call.t = F(0)
    /\ call.x = F(40)
    /\ self.kappa = F(2)
    /\ call.ret = <<F(1)>>

\* C10, the failure: kappa > 0 so small that kappa ** 2 is zero in the
\* format, and a0(0) divides by it
C10_TinyKappa ==
    /\ call.op = "a0"
    /\ call.t = F(0)
    /\ ValidParameters(self)
    /\ exc = "ZeroDivisionError"

\* whether a and b are the same value as far as the narrowed format can tell:
\* the same exception, the same infinity, both NaN, or two finite values of
\* the same sign neither of which is more than twice the other
SameValue(a, b) ==
    /\ a.k = b.k
    /\ IsFin(a) => /\ Sgn(a.m) = Sgn(b.m)
                   /\ Abs(a.m) <= 2 * Abs(b.m)
                   /\ Abs(b.m) <= 2 * Abs(a.m)

\* C11: u0_check is an equivalent implementation of u0.  For valid parameters,
\* t >= 0 and every x, a call u0_check(t,x) ends as u0(t,x) ends: it raises
\* what u0 raises, or returns the value u0 returns.
C11_CheckEquivalent ==
    (call.op = "u0_check" /\ ValidParameters(self))
        => \A v \in {u0(self, call.t, call.x)} : SameValue(call.ret[1], v)

\* C11, the failure: u0_check returned +inf for arguments at which u0 raises
\* OverflowError
C11_CheckReturnsInfinity ==
    /\ call.op = "u0_check"
    /\ ValidParameters(self)
    /\ call.ret = <<PInf>>
    /\ exc = ""
    /\ \E v \in {u0(self, call.t, call.x)} : v = Err("OverflowError")

\* the sum of the recorded term list, added up as the function adds its own
v2_symmetric_reference(obj, t) ==
    SumFrom(F(0), EvalAll(v2_symmetric_reference_terms, obj, t))

\* the last entry of the recorded list: 625/4608 / kappa^10 * ss_under^4
ConstantTerm(obj, t) ==
    Eval(v2_symmetric_reference_terms[Len(v2_symmetric_reference_terms)], obj, t)

\* C14: v2_symmetric is an exact transcription of its full formula.  For
\* kappa > 0, whenever v2_symmetric returns with no sub-term dropped, what it
\* returns is the sum of the complete term list recorded in the function.
C14_ExactTranscription ==
    (call.op = "v2_symmetric" /\ ValidParameters(self) /\ exc = "" /\ ~call.warned)
        => call.ret[1] = v2_symmetric_reference(self, call.t)

\* C14, the failure: v2_symmetric returned with nothing dropped, and its value
\* is short of the recorded list's sum by exactly the list's last entry, which
\* the lists that are summed leave out
C14_ConstantTermMissing ==
    /\ call.op = "v2_symmetric"
    /\ ValidParameters(self)
    /\ exc = ""
    /\ ~call.warned
    /\ ConstantTerm(self, call.t) # F(0)
    /\ Add(call.ret[1], ConstantTerm(self, call.t)) = v2_symmetric_reference(self, call.t)
    /\ v2_symmetric_terms \o v2_symmetric_difficult_terms
          # v2_symmetric_reference_terms

\* C15: all four correction terms vanish at maturity zero.  For kappa > 0 and
\* lmbd > 0, v1_symmetric(0), v1_antisymmetric(0), v2_symmetric(0) and
\* v2_antisymmetric(0) are 0, series(0,x,s) is [1,0,0,0,0] and u(0,x,s) is 1,
\* for every x and s.
C15_CorrectionsVanish ==
    (state = "constructed" /\ ValidParameters(self) /\ call.t = F(0))
        => /\ call.op \in {"v1_symmetric", "v1_antisymmetric",
                           "v2_symmetric", "v2_antisymmetric"}
                 => call.ret = <<F(0)>>
           /\ call.op = "series" => call.ret = <<F(1), F(0), F(0), F(0), F(0)>>
           /\ call.op = "u" => call.ret = <<F(1)>>

\* C15, the failure: u(0,x,s) returned a value below zero, the second-order
\* symmetric entry of the series being the one that is not zero
C15_NegativeAtMaturity ==
    /\ call.op = "u"
    /\ ValidParameters(self)
    /\ call.t = F(0)
    /\ exc = ""
    /\ Lt(call.ret[1], F(0))
    /\ \E vs \in {series(self, call.t, call.x, call.s)} :
          /\ vs[1] = F(1) /\ vs[2] = F(0) /\ vs[3] = F(0) /\ vs[5] = F(0)
          /\ Lt(vs[4], F(-1))

====
